---- MODULE Spec2Model ----
(***************************************************************************)
(* A model of getty's Linux resolution engine (src/src/linux): the         *)
(* DirentBuf buffers, the raw directory stream (Dir / DirIterator), the    *)
(* device-number -> path search (by_device_with_buffers_in, find_in_dir,   *)
(* try_path_guessing, scandir) and the /proc/<pid>/stat parser.            *)
(*                                                                         *)
(* Byte strings are sequences of one-character strings; the terminator is  *)
(* the cell "NUL" and memory never written is the cell "UNINIT".           *)
(***************************************************************************)
EXTENDS Integers, Sequences, FiniteSets, TLC

\* ------------------------------------------------------------ constants

TTY_MAJOR == 4
PTS_MAJOR == 136
TTY_ACM_MAJOR == 166
TTY_USB_MAJOR == 188
NR_CONSOLES == 64

\* size_of::<DirEntry>(): the packed header, u64 + u64 + u16 + u8.
DIRENT_HDR == 19

\* ------------------------------------------------------------ bounds

\* Capacities of the dirent buffer: room for one short entry, for a listing.
SmallCap == 24
LargeCap == 128
\* Capacities of a fixed path buffer.
SmallPath == 6
LargePath == 16

\* Interruptions (EINTR) injected into one system call.
MaxEintr == 1

\* Closes that fail in one call.
MaxCloseFail == 1

\* ------------------------------------------------------------ bytes

NUL == "NUL"
UNINIT == "UNINIT"
SLASH == "/"

Min(a, b) == IF a <= b THEN a ELSE b

Digit(d) ==
    CASE d = 0 -> "0" [] d = 1 -> "1" [] d = 2 -> "2" [] d = 3 -> "3"
      [] d = 4 -> "4" [] d = 5 -> "5" [] d = 6 -> "6" [] d = 7 -> "7"
      [] d = 8 -> "8" [] d = 9 -> "9"

\* itoap::write_to_ptr: the decimal digits of n, most significant first.
RECURSIVE write_to_ptr(_)
write_to_ptr(n) ==
    IF n < 10 THEN <<Digit(n)>>
    ELSE write_to_ptr(n \div 10) \o <<Digit(n % 10)>>

\* concat_cstr_number: the prefix, the number, the terminator.
concat_cstr_number(cstr, n) == cstr \o write_to_ptr(n) \o <<NUL>>

\* CStr::from_ptr(..).to_bytes(): the bytes before the first terminator.
RECURSIVE to_bytes(_)
to_bytes(s) ==
    IF s = <<>> \/ Head(s) = NUL THEN <<>>
    ELSE <<Head(s)>> \o to_bytes(Tail(s))

\* GuessName without the ENOTTY arm: any other major is taken for ttyUSB.
GuessName_NoEnotty(dev) ==
    CASE dev.major = TTY_MAJOR ->
           IF dev.minor < NR_CONSOLES
           THEN concat_cstr_number(<<"t", "t", "y">>, dev.minor)
           ELSE concat_cstr_number(<<"t", "t", "y", "S">>, dev.minor - NR_CONSOLES)
      [] dev.major = PTS_MAJOR ->
           concat_cstr_number(<<"p", "t", "s", "/">>, dev.minor)
      [] dev.major = TTY_ACM_MAJOR ->
           concat_cstr_number(<<"t", "t", "y", "A", "C", "M">>, dev.minor)
      [] OTHER ->
           concat_cstr_number(<<"t", "t", "y", "U", "S", "B">>, dev.minor)

\* GuessName without the arm for the serial lines: major 4 is always "tty".
GuessName_NoSerial(dev) ==
    CASE dev.major = TTY_MAJOR -> concat_cstr_number(<<"t", "t", "y">>, dev.minor)
      [] dev.major = PTS_MAJOR ->
           concat_cstr_number(<<"p", "t", "s", "/">>, dev.minor)
      [] dev.major = TTY_ACM_MAJOR ->
           concat_cstr_number(<<"t", "t", "y", "A", "C", "M">>, dev.minor)
      [] dev.major = TTY_USB_MAJOR ->
           concat_cstr_number(<<"t", "t", "y", "U", "S", "B">>, dev.minor)
      [] OTHER -> <<>>

\* The guessed file name of by_device_with_buffers_in, or <<>> when the
\* major is not a tty major (the ENOTTY arm).
GuessName(dev) ==
    CASE dev.major = TTY_MAJOR ->
           IF dev.minor < NR_CONSOLES
           THEN concat_cstr_number(<<"t", "t", "y">>, dev.minor)
           ELSE concat_cstr_number(<<"t", "t", "y", "S">>, dev.minor - NR_CONSOLES)
      [] dev.major = PTS_MAJOR ->
           concat_cstr_number(<<"p", "t", "s", "/">>, dev.minor)
      [] dev.major = TTY_ACM_MAJOR ->
           concat_cstr_number(<<"t", "t", "y", "A", "C", "M">>, dev.minor)
      [] dev.major = TTY_USB_MAJOR ->
           concat_cstr_number(<<"t", "t", "y", "U", "S", "B">>, dev.minor)
      [] OTHER -> <<>>

\* ------------------------------------------------------------ DirentBuf
\* A buffer is [kind, cap, len, mem, ptr]: mem holds cap cells, the first len
\* of which are the buffer's contents.  ptr is the state of the backing
\* allocation: "inline" (ArrayBuffer), "null" (nothing allocated), "live", or
\* "freed" (the pointer is kept but its block was released).

OK == "OK"
ENOMEM == "ENOMEM"

\* ArrayBuffer::<N>::new()
ArrayBufferNew(N) ==
    [kind |-> "Array", cap |-> N, len |-> 0,
     mem |-> [i \in 1..N |-> UNINIT], ptr |-> "inline"]

\* VecBuffer::new()
VecBufferNew ==
    [kind |-> "Vec", cap |-> 0, len |-> 0, mem |-> <<>>, ptr |-> "null"]

\* CBuffer::new()
CBufferNew ==
    [kind |-> "C", cap |-> 0, len |-> 0, mem |-> <<>>, ptr |-> "null"]

\* libc realloc / the allocator's grow: the first min(old, new) cells are
\* kept, the others are not initialized.
Realloc(mem, size) ==
    [i \in 1..size |-> IF i <= Len(mem) THEN mem[i] ELSE UNINIT]

\* libc malloc: a block of cells that are not initialized.
Malloc(size) == [i \in 1..size |-> UNINIT]

\* DirentBuf::reset
reset(b) == [b EXCEPT !.len = 0]

\* DirentBuf::set_len
set_len(b, n) == [b EXCEPT !.len = n]

\* ArrayBuffer::reserve without the comparison with N.
ArrayReserve_AlwaysOk(b, size) == [err |-> OK, buf |-> b]

\* ArrayBuffer::reserve
ArrayReserve(b, size) ==
    IF size > b.cap THEN [err |-> ENOMEM, buf |-> b]
    ELSE [err |-> OK, buf |-> b]

\* VecBuffer::reserve: Vec::reserve_exact(size - len) when size >= len.
VecReserve(b, size) ==
    IF size >= b.len /\ size - b.len > b.cap - b.len
    THEN [err |-> OK,
          buf |-> [b EXCEPT !.cap = size, !.mem = Realloc(b.mem, size),
                            !.ptr = "live"]]
    ELSE [err |-> OK, buf |-> b]

\* What a block that was released holds once the allocator has reused it.
GARBAGE == "GARBAGE"
Reused(mem) == [i \in 1..Len(mem) |-> GARBAGE]

\* CBuffer::reserve without line 602 (self.capacity = size).
CReserve_KeepsCapacity(b, size, alloc) ==
    IF size > b.cap
    THEN IF alloc = "null" THEN [err |-> ENOMEM, buf |-> b]
         ELSE [err |-> OK,
               buf |-> [b EXCEPT !.mem = Realloc(b.mem, size), !.ptr = "live"]]
    ELSE [err |-> OK, buf |-> b]

\* CBuffer::reserve.  alloc is what malloc/realloc does: "ok", "null" (it
\* returns NULL), and, for a pointer whose block was released, "stale" (the
\* bytes it copies are those the block holds by then).
CReserve(b, size, alloc) ==
    IF size > b.cap
    THEN IF alloc = "null" THEN [err |-> ENOMEM, buf |-> b]
         ELSE [err |-> OK,
               buf |-> [b EXCEPT !.cap = size,
                                 !.mem = CASE b.ptr = "null" -> Malloc(size)
                                           [] alloc = "stale" -> Realloc(Reused(b.mem), size)
                                           [] OTHER -> Realloc(b.mem, size),
                                 !.ptr = "live"]]
    ELSE [err |-> OK, buf |-> b]

\* DirentBuf::reserve, by variant.
reserve(b, size, alloc) ==
    CASE b.kind = "Array" -> ArrayReserve(b, size)
      [] b.kind = "Vec" -> VecReserve(b, size)
      [] b.kind = "C" -> CReserve(b, size, alloc)

\* copy_nonoverlapping(slice, as_mut_ptr().add(len), slice.len())
CopyAt(mem, at, slice) ==
    [i \in 1..Len(mem) |->
        IF i > at /\ i <= at + Len(slice) THEN slice[i - at] ELSE mem[i]]

\* DirentBuf::push_slice
push_slice(b, slice, alloc) ==
    LET new_len == b.len + Len(slice)
        r == reserve(b, new_len, alloc)
    IN IF r.err # OK THEN r
       ELSE [err |-> OK,
             buf |-> set_len([r.buf EXCEPT !.mem = CopyAt(r.buf.mem, b.len, slice)],
                             new_len)]

\* DirentBuf::push_c_str
push_c_str(b, s, alloc) == push_slice(b, to_bytes(s), alloc)

\* The outcomes of libc realloc(mem, len) in CBuffer::shrink_to_fit: a block of
\* the new size ("ok"), NULL with the old block untouched ("null_kept"), and,
\* for a size of 0, NULL with the old block released ("null_freed").
ShrinkOutcomes(b) ==
    IF b.kind # "C" THEN {"ok"}
    ELSE IF b.len = 0 THEN {"ok", "null_kept", "null_freed"}
    ELSE {"ok", "null_kept"}

\* DirentBuf::shrink_to_fit, by variant.
shrink_to_fit(b, outcome) ==
    CASE b.kind = "Array" -> b
      [] b.kind = "Vec" ->
           [b EXCEPT !.cap = b.len, !.mem = SubSeq(b.mem, 1, b.len),
                     !.ptr = IF b.len = 0 THEN "null" ELSE b.ptr]
      [] b.kind = "C" ->
           CASE outcome = "ok" ->
                  [b EXCEPT !.cap = b.len, !.mem = SubSeq(b.mem, 1, b.len),
                            !.ptr = "live"]
             [] outcome = "null_kept" -> b
             [] outcome = "null_freed" ->
                  [b EXCEPT !.ptr = IF b.ptr = "live" THEN "freed" ELSE b.ptr]

\* Drop: CBuffer frees mem when it is not null (dir.rs:574-580), for a block
\* that was released already a second time; a Vec releases its allocation;
\* an ArrayBuffer owns none.
drop(b) ==
    [b EXCEPT !.ptr = CASE b.ptr = "live" -> "released"
                        [] b.ptr = "freed" -> "double_freed"
                        [] OTHER -> b.ptr]

\* DirentBuf::as_slice: the contents, cells 1..len.
as_slice(b) == SubSeq(b.mem, 1, b.len)

\* ------------------------------------------------------------ file system
\* The file system the call runs against.  Directories are "r1" and "r2" (the
\* candidate roots /d and /e), "pts" (a subdirectory of r1), and "pp" and "d"
\* (subdirectories of pts); "cT" is a character device whose device number is the
\* target, "cO" a character device with another number, "reg" a regular file.
\* A directory's listing is the sequence of its entries in the order the
\* kernel returns them, "." and ".." first.

ENOENT == "ENOENT"
ENOTDIR == "ENOTDIR"
ENOTTY == "ENOTTY"
EINVAL == "EINVAL"
EIO == "EIO"
EAGAIN == "EAGAIN"
EINTR == "EINTR"

\* The errors a system call is made to fail with, besides those the file
\* system gives: every arm Err(err) => return Err(err) takes them alike.
SysErrors == {EIO, EAGAIN}

\* The errors of a system call on an entry that getdents64 has returned: those
\* and ENOENT, for an entry removed since the directory was read.
EntryErrors == SysErrors \cup {ENOENT}

DirNodes == {"r1", "r2", "pts", "pp", "d"}

Kind(node) ==
    CASE node \in DirNodes \cup {"top"} -> "Directory"
      [] node \in {"cT", "cO"} -> "Character"
      [] node = "ln" -> "Symlink"
      [] OTHER -> "Regular"

\* What a path walk that follows symbolic links ends at: "ln" is a symbolic
\* link to the device "cT".
LinkTarget(node) == IF node = "ln" THEN "cT" ELSE node

\* Another device number than dev: same major, next minor.
OtherDev(dev) == [major |-> dev.major, minor |-> dev.minor + 1]

\* st_rdev as fstatat reports it for node, when the target is dev.
Rdev(node, dev) ==
    CASE node = "cT" -> dev
      [] node = "cO" -> OtherDev(dev)
      [] OTHER -> [major |-> 0, minor |-> 0]

Parent(node) ==
    CASE node = "pts" -> "r1"
      [] node \in {"d", "pp"} -> "pts"
      [] OTHER -> "top"

Dots(node) ==
    <<[name |-> <<".">>, node |-> node],
      [name |-> <<".", ".">>, node |-> Parent(node)]>>

Names(list) == {list[i].name : i \in 1..Len(list)}

\* All sequences of at most n entries of pool, with distinct names.
RECURSIVE ListsUpTo(_, _)
ListsUpTo(pool, n) ==
    IF n = 0 THEN {<<>>}
    ELSE LET shorter == ListsUpTo(pool, n - 1)
         IN shorter \cup
            {Append(l, e) : <<l, e>> \in
                {<<l, e>> \in shorter \X pool : e.name \notin Names(l)}}

\* The index in list of the entry called name, 0 when there is none.
Find(list, name) ==
    IF \E i \in 1..Len(list) : list[i].name = name
    THEN CHOOSE i \in 1..Len(list) : list[i].name = name
    ELSE 0

\* The first component of a relative path and what follows its "/".
RECURSIVE FirstComp(_)
FirstComp(bytes) ==
    IF bytes = <<>> \/ Head(bytes) = SLASH THEN <<>>
    ELSE <<Head(bytes)>> \o FirstComp(Tail(bytes))

RestComp(bytes) ==
    LET k == Len(FirstComp(bytes))
    IN IF k >= Len(bytes) THEN <<>> ELSE SubSeq(bytes, k + 2, Len(bytes))

\* The kernel's path walk from directory node along the relative path bytes,
\* following no symbolic link: the node reached, or the error.
RECURSIVE Walk(_, _, _)
Walk(tree, node, bytes) ==
    IF Kind(node) # "Directory" \/ node \notin DOMAIN tree
    THEN [err |-> ENOTDIR, node |-> node]
    ELSE LET i == Find(tree[node], FirstComp(bytes))
         IN IF i = 0 THEN [err |-> ENOENT, node |-> node]
            ELSE IF RestComp(bytes) = <<>>
                 THEN [err |-> OK, node |-> tree[node][i].node]
                 ELSE Walk(tree, tree[node][i].node, RestComp(bytes))

\* ------------------------------------------------------------ inputs

\* The longest listing of a directory, "." and ".." not counted.
MaxList == 2

E(name, node) == [name |-> name, node |-> node]

\* The last component of a relative path.
RECURSIVE Leaf(_)
Leaf(bytes) == IF RestComp(bytes) = <<>> THEN FirstComp(bytes) ELSE Leaf(RestComp(bytes))

HasSlash(bytes) == \E i \in 1..Len(bytes) : bytes[i] = SLASH

\* What a candidate root may hold besides "." and "..": the guessed name (when
\* it has no directory part), a device "x", the subdirectory "pts".
RootPool(g) ==
    {E(<<"x">>, "cT"), E(<<"x">>, "cO"), E(<<"p", "t", "s">>, "pts")}
    \cup (IF g # <<>> /\ ~HasSlash(g) THEN {E(g, "cT"), E(g, "cO"), E(g, "ln")} ELSE {})

\* What pts may hold: the guessed name's last component (when the guess is
\* pts/<n>), devices "x" and "y", an entry called "pts" again (a regular file
\* or the directory pp), the subdirectory "d".
PtsPool(g) ==
    {E(<<"y">>, "cT"), E(<<"x">>, "cT"), E(<<"p", "t", "s">>, "reg"),
     E(<<"p", "t", "s">>, "pp"), E(<<"d">>, "d")}
    \cup (IF HasSlash(g) THEN {E(Leaf(g), "cT"), E(Leaf(g), "cO")} ELSE {})

Listing(node, list) == Dots(node) \o list

HasNode(list, node) == \E i \in 1..Len(list) : list[i].node = node

\* Stands for the listing of a root that does not exist.
NoDir == <<E(<<>>, "none")>>

\* The listings a second root may have.
R2Lists(g) ==
    {<<>>, <<E(<<"x">>, "cT")>>}
    \cup (IF g # <<>> /\ ~HasSlash(g) THEN {<<E(g, "cT")>>} ELSE {})

\* The trees with the listings of r1 and pts of at most n entries and the
\* listing of r2 one of r2s.
Trees(g, n, r2s) ==
    LET r1s == ListsUpTo(RootPool(g), n)
        ptss == ListsUpTo(PtsPool(g), n)
        pps == {<<>>, <<E(<<"p", "t", "s">>, "reg")>>}
        ds == {<<>>, <<E(<<"z">>, "cT")>>}
    IN  { [node \in {"r1"} \cup (IF r2 # NoDir THEN {"r2"} ELSE {})
                 \cup (IF HasNode(r1, "pts") THEN {"pts"} ELSE {})
                 \cup (IF HasNode(r1, "pts") /\ HasNode(pts, "pp") THEN {"pp"} ELSE {})
                 \cup (IF HasNode(r1, "pts") /\ HasNode(pts, "d") THEN {"d"} ELSE {})
             |-> Listing(node, CASE node = "r1" -> r1 [] node = "r2" -> r2
                                 [] node = "pts" -> pts [] node = "pp" -> pp
                                 [] node = "d" -> d)]
          : <<r1, r2, pts, pp, d>> \in
                {t \in r1s \X r2s \X ptss \X pps \X ds :
                    /\ (~HasNode(t[1], "pts") => t[3] = <<>>)
                    /\ (~HasNode(t[3], "pp") => t[4] = <<>>)
                    /\ (~HasNode(t[3], "d") => t[5] = <<>>)} }

\* The candidate roots as C strings.
R1 == <<"/", "d", NUL>>
R2 == <<"/", "e", NUL>>

\* Dir::open's path walk from the current directory: the roots' nodes.
RootNode(tree, dir) ==
    CASE to_bytes(dir) = to_bytes(R1) /\ "r1" \in DOMAIN tree -> "r1"
      [] to_bytes(dir) = to_bytes(R2) /\ "r2" \in DOMAIN tree -> "r2"
      [] OTHER -> "none"

\* ------------------------------------------------------------ kernel

\* d_reclen of a linux_dirent64: the header, the name and its terminator,
\* rounded up to a multiple of 8.
Reclen(name) == ((DIRENT_HDR + Len(name) + 1 + 7) \div 8) * 8

PAD == "PAD"

\* The d_type the kernel reports: the node's type, or Unknown on a file
\* system that gives no type hints.
DType(node, typed) == IF typed THEN Kind(node) ELSE "Unknown"

\* The record of entry i of a listing; d_off is the position after it.
Dirent(list, i, typed) ==
    [d_ino |-> list[i].node, d_off |-> i, d_reclen |-> Reclen(list[i].name),
     d_type |-> DType(list[i].node, typed), d_name |-> list[i].name \o <<NUL>>]

\* The cells of a record: the record, then padding up to d_reclen.
DirentCells(rec) == <<rec>> \o [j \in 1..(rec.d_reclen - 1) |-> PAD]

\* How many entries from position pos on fit into count bytes.
RECURSIVE Fit(_, _, _)
Fit(list, pos, count) ==
    IF pos >= Len(list) \/ Reclen(list[pos + 1].name) > count THEN 0
    ELSE 1 + Fit(list, pos + 1, count - Reclen(list[pos + 1].name))

RECURSIVE Packed(_, _, _, _)
Packed(list, pos, k, typed) ==
    IF k = 0 THEN <<>>
    ELSE DirentCells(Dirent(list, pos + 1, typed)) \o Packed(list, pos + 1, k - 1, typed)

\* The getdents64 system call on a directory at position pos with a buffer
\* of count bytes: EINVAL when the next entry does not fit, otherwise the
\* records written (none at the end of the directory) and the new position.
sys_getdents64(list, pos, count, typed) ==
    LET k == Fit(list, pos, count)
    IN IF pos < Len(list) /\ k = 0
       THEN [err |-> EINVAL, cells |-> <<>>, pos |-> pos]
       ELSE [err |-> OK, cells |-> Packed(list, pos, k, typed), pos |-> pos + k]

\* The descriptors a call may hold at once.
FDs == {3, 4, 5, 6}

Closed == [open |-> FALSE, node |-> "none", pos |-> 0]

\* The lowest descriptor that is not open.
LowestFree(f) == CHOOSE fd \in FDs : ~f[fd].open /\ \A g \in FDs : g < fd => f[g].open

\* ------------------------------------------------------------ state

VARIABLES
    fs,        \* the file system tree
    typed,     \* whether getdents64 reports entry types
    rdev,      \* by_device_with_buffers_in: the device number looked for
    dirs,      \* ... the candidate roots
    pbuf,      \* ... path_buf
    dbuf,      \* ... dirent_buf
    guess,     \* ... guess_buf
    ri,        \* ... the index in dirs of the root being searched
    fds,       \* the kernel's descriptor table
    stack,     \* the live scandir calls, outermost first: Dir {fd, tell},
               \* DirIterator {offset}, old_len; and, for the record, the names
               \* the Dir's iterators yielded, the name of the subdirectory
               \* entered last (sub) and how many names had been yielded when
               \* the scan of it returned (resume)
    cur,       \* scandir: the entry the iterator returned last
    pc,        \* the place of the call
    ret,       \* the value the call returned
    retries,   \* interruptions of the system call being issued
    faulted,   \* whether a system call or allocation failure was injected
    trace      \* the system calls issued, in order

\* The state of the other components: the status record RawProcessInfo::parse
\* reads and what it returns.
VARIABLES
    proc,      \* the process whose status is read, as the kernel holds it
    stat_buf,  \* the contents of /proc/<pid>/stat
    plen,      \* RawProcessInfo::parse: len, the bytes read so far
    ppc,       \* ... the place of the call
    pinfo      \* ... its result

\* The state of a buffer that is used through DirentBuf alone (the buffer
\* itself is dbuf): the last method called and the buffer before the call.
VARIABLES
    bop,       \* [op, arg, err, n]: the n-th call, its argument and result
    bprev      \* the buffer before that call

\* The state of the BSD variants: RawProcessInfo::for_process with
\* bsd::proc_info, and the values that own memory of the C allocator.
VARIABLES
    kproc,     \* the process asked about, as the kernel answers for it
    sid,       \* for_process (Apple): session, from getsid
    size,      \* proc_info: size
    ki_proc,   \* proc_info: the block ki_proc points to, [state, bytes]
    bpc,       \* the place of the call
    bret,      \* its result
    btrace,    \* the calls to the allocator and to the kernel, in order
    owners     \* the values that hold a pointer to the block, [kind, live]

bsdvars == <<kproc, sid, size, ki_proc, bpc, bret, btrace, owners>>

others == <<proc, stat_buf, plen, ppc, pinfo, bop, bprev, bsdvars>>

vars == <<fs, typed, rdev, dirs, pbuf, dbuf, guess, ri, fds, stack, cur, pc,
          ret, retries, faulted, trace, others>>

Dev(major, minor) == [major |-> major, minor |-> minor]

NoEntry == [d_ino |-> "none", d_off |-> 0, d_reclen |-> 0, d_type |-> "Unknown",
            d_name |-> <<NUL>>]

NoRet == [tag |-> "None"]
NoProc == [pid |-> 0]
NoOp == [op |-> "none", arg |-> <<>>, err |-> "OK", n |-> 0]

\* ptr::null_mut(): no block.
NullBlock == [state |-> "null", bytes |-> 0]

\* No call of a BSD variant is running.
BsdIdle ==
    /\ kproc = [variant |-> "none"]
    /\ sid = 0
    /\ size = 0
    /\ ki_proc = NullBlock
    /\ bpc = "idle"
    /\ bret = NoRet
    /\ btrace = <<>>
    /\ owners = <<>>

\* No status file is being read and no buffer is being exercised.
OthersIdle ==
    /\ proc = NoProc
    /\ stat_buf = <<>>
    /\ plen = 0
    /\ ppc = "idle"
    /\ pinfo = NoRet
    /\ bop = NoOp
    /\ bprev = VecBufferNew
    /\ BsdIdle
Err(e) == [tag |-> "Err", errno |-> e]
\* TtyInfo { dev, buf, offset }
TtyInfo(dev, buf, offset) == [tag |-> "Ok", dev |-> dev, buf |-> buf, offset |-> offset]

\* TtyInfo::path and TtyInfo::name
TtyInfo_path(t) == to_bytes(t.buf.mem)
TtyInfo_name(t) == to_bytes(SubSeq(t.buf.mem, t.offset + 1, Len(t.buf.mem)))

\* ------------------------------------------------------------ Init

Majors == {TTY_MAJOR, PTS_MAJOR, TTY_ACM_MAJOR, TTY_USB_MAJOR, 7}
Minors == {1, 70}

\* A VecBuffer / CBuffer that was grown to cap before the call.
VecWithCap(cap) == VecReserve(VecBufferNew, cap).buf
CWithCap(cap) == CReserve(CBufferNew, cap, "ok").buf

\* dirent_buf and path_buf as the callers pass them: the defaults of the
\* three builds (DirBuf::new(), PathBuf::new()) and buffers of the caller.
DefaultBufs ==
    {<<VecBufferNew, VecBufferNew>>, <<CBufferNew, CBufferNew>>,
     <<ArrayBufferNew(LargeCap), ArrayBufferNew(LargePath)>>}
CallerBufs ==
    {<<VecWithCap(SmallCap), CBufferNew>>,
     <<CWithCap(LargeCap), VecBufferNew>>,
     <<ArrayBufferNew(SmallCap), ArrayBufferNew(SmallPath)>>}

G0(dev) == to_bytes(GuessName(dev))

\* The calls explored: every device of the guess table against small trees,
\* one device against the larger trees, and one device against two roots.
Calls ==
    { [dev |-> dev, dirs |-> ds, tree |-> t, typed |-> TRUE, bufs |-> b] :
        <<dev, ds, t, b>> \in
          UNION { {dev} \X {<<>>, <<R1>>} \X Trees(G0(dev), 1, {NoDir})
                        \X (DefaultBufs \cup CallerBufs)
                  : dev \in {Dev(ma, mi) : <<ma, mi>> \in Majors \X Minors} } }
    \cup
    { [dev |-> Dev(TTY_MAJOR, 1), dirs |-> <<R1>>, tree |-> t, typed |-> ty, bufs |-> b] :
        <<t, ty, b>> \in Trees(G0(Dev(TTY_MAJOR, 1)), MaxList, {NoDir}) \X BOOLEAN
                         \X (CallerBufs \cup {<<ArrayBufferNew(LargeCap), ArrayBufferNew(LargePath)>>}) }
    \cup
    { [dev |-> Dev(TTY_MAJOR, 1), dirs |-> ds, tree |-> t, typed |-> TRUE, bufs |-> b] :
        <<ds, t, b>> \in {<<R1, R2>>, <<R2, R1>>}
                         \X Trees(G0(Dev(TTY_MAJOR, 1)), 1, R2Lists(G0(Dev(TTY_MAJOR, 1))) \cup {NoDir})
                         \X {<<VecWithCap(SmallCap), CBufferNew>>,
                             <<ArrayBufferNew(LargeCap), ArrayBufferNew(LargePath)>>} }

Init ==
    \E c \in Calls :
        /\ fs = c.tree
        /\ typed = c.typed
        /\ rdev = c.dev
        /\ dirs = c.dirs
        /\ dbuf = c.bufs[1]
        /\ pbuf = c.bufs[2]
        /\ guess = <<>>
        /\ ri = 0
        /\ fds = [fd \in FDs |-> Closed]
        /\ stack = <<>>
        /\ cur = NoEntry
        /\ pc = "start"
        /\ ret = NoRet
        /\ retries = 0
        /\ faulted = FALSE
        /\ trace = <<>>
        /\ OthersIdle

\* ------------------------------------------------------------ helpers

Top == stack[Len(stack)]
SetTop(f) == [stack EXCEPT ![Len(stack)] = f]

\* A system call as recorded in trace.
Ev(op, fd, arg, res) == [op |-> op, fd |-> fd, arg |-> arg, res |-> res]

\* fstatat's answer without AT_SYMLINK_NOFOLLOW.
Stat_Follow(node) ==
    [file_type |-> Kind(LinkTarget(node)), rdev |-> Rdev(LinkTarget(node), rdev)]

\* fstatat's answer for a node, with AT_SYMLINK_NOFOLLOW.
Stat(node) == [file_type |-> Kind(node), rdev |-> Rdev(node, rdev)]

\* trace with ev added, unless ev repeats the last system call as it was.
Logged(t, ev) == IF t # <<>> /\ t[Len(t)] = ev THEN t ELSE Append(t, ev)

\* Drop of every live Dir, innermost first: close, its result ignored.
CloseEvs(st, rs) ==
    [i \in 1..Len(st) |-> Ev("close", st[Len(st) + 1 - i].fd, <<>>, rs[i])]

\* The closes of t that failed.
FailedCloses(t) == {i \in 1..Len(t) : t[i].op = "close" /\ t[i].res # OK}

\* What n more closes may return after the system calls t: the descriptor is
\* released in every case, and at most MaxCloseFail closes of a call fail.
CloseResults(t, n) ==
    {rs \in [1..n -> {OK, EIO}] :
        Cardinality(FailedCloses(t)) + Cardinality({i \in 1..n : rs[i] # OK}) <= MaxCloseFail}
\* The drop that closes the innermost Dir alone.
CloseFds_Innermost(f, st) ==
    [fd \in FDs |-> IF st # <<>> /\ st[Len(st)].fd = fd THEN Closed ELSE f[fd]]

CloseFds(f, st) ==
    [fd \in FDs |-> IF \E i \in 1..Len(st) : st[i].fd = fd THEN Closed ELSE f[fd]]

\* What malloc/realloc may do for buffer b.
AllocOutcomes(b) ==
    IF b.kind = "C"
    THEN {"ok", "null"} \cup (IF b.ptr = "freed" THEN {"stale"} ELSE {})
    ELSE {"ok"}

\* The interrupted outcome of the system call being issued: the loop retries.
Eintr ==
    /\ retries < MaxEintr
    /\ retries' = retries + 1
    /\ UNCHANGED <<others, fs, typed, rdev, dirs, pbuf, dbuf, guess, ri, fds, stack, cur,
                   pc, ret, faulted, trace>>

\* A return that, for an error in a root that is not the last one, goes on
\* with the next root.
Return_NextRoot(r, evs, pb, db, inj) ==
    /\ IF r.tag = "Err" /\ ri >= 1 /\ ri < Len(dirs)
       THEN /\ ret' = ret
            /\ pc' = "find_in_dir"
            /\ ri' = ri + 1
       ELSE /\ ret' = r
            /\ pc' = "done"
            /\ ri' = ri
    /\ stack' = <<>>
    /\ fds' = [fd \in FDs |-> Closed]
    /\ trace' = trace \o evs \o [i \in 1..Len(stack) |-> Ev("close", stack[Len(stack) + 1 - i].fd, <<>>, OK)]
    /\ pbuf' = pb
    /\ dbuf' = db
    /\ retries' = 0
    /\ faulted' = (faulted \/ inj)
    /\ cur' = cur
    /\ UNCHANGED <<others, fs, typed, rdev, dirs, guess>>

\* The call returns r after the system calls evs: every live Dir is dropped.
Return(r, evs, pb, db, inj) ==
    /\ ret' = r
    /\ pc' = "done"
    /\ stack' = <<>>
    /\ fds' = CloseFds(fds, stack)
    /\ \E rs \in CloseResults(trace, Len(stack)) :
          trace' = trace \o evs \o CloseEvs(stack, rs)
    /\ pbuf' = pb
    /\ dbuf' = db
    /\ retries' = 0
    /\ faulted' = (faulted \/ inj)
    /\ cur' = cur
    /\ UNCHANGED <<others, fs, typed, rdev, dirs, guess, ri>>

\* by_device_with_buffers_in's Ok arm: shrink_to_fit, then the TtyInfo.
ReturnOk(evs, pb) ==
    \E outcome \in ShrinkOutcomes(pb) :
        Return(TtyInfo(rdev, shrink_to_fit(pb, outcome), Len(to_bytes(dirs[ri])) + 1),
               evs, shrink_to_fit(pb, outcome), dbuf, FALSE)

\* The append of a match without the reserve before it: each push allocates
\* for itself, and the allocation fails at the second one.
AppendMatch_Piecewise(b, file, alloc) ==
    LET r1 == push_slice(b, <<SLASH>>, IF alloc = "null" THEN "ok" ELSE alloc)
        r2 == push_slice(r1.buf, file, alloc)
        r3 == push_slice(r2.buf, <<NUL>>, alloc)
    IN CASE r1.err # OK -> r1
         [] r2.err # OK -> r2
         [] OTHER -> r3

\* The append of a match: reserve, then "/", the name, the terminator.
AppendMatch(b, file, alloc) ==
    LET r0 == reserve(b, b.len + Len(file) + 2, alloc)
        r1 == push_slice(r0.buf, <<SLASH>>, alloc)
        r2 == push_slice(r1.buf, file, alloc)
        r3 == push_slice(r2.buf, <<NUL>>, alloc)
    IN CASE r0.err # OK -> r0
         [] r1.err # OK -> r1
         [] r2.err # OK -> r2
         [] OTHER -> r3

\* try_path that takes every entry for the device.
try_path_AnyDevice(md, file, ttynr, b, alloc) ==
    LET r == AppendMatch(b, to_bytes(file), alloc)
    IN [err |-> r.err, some |-> r.err = OK, buf |-> r.buf]

\* try_path that takes no entry for the device.
try_path_Never(md, file, ttynr, b, alloc) == [err |-> OK, some |-> FALSE, buf |-> b]

\* try_path: Some(()) with the path appended when the device numbers agree.
try_path(md, file, ttynr, b, alloc) ==
    IF md.rdev = ttynr
    THEN LET r == AppendMatch(b, to_bytes(file), alloc)
         IN [err |-> r.err, some |-> r.err = OK, buf |-> r.buf]
    ELSE [err |-> OK, some |-> FALSE, buf |-> b]

\* guess_accept that takes no entry for the device.
guess_accept_Never(md, file, ttynr, b, alloc) == [err |-> OK, some |-> FALSE, buf |-> b]

\* try_path_guessing's Ok(md) arm.
guess_accept(md, file, ttynr, b, alloc) ==
    IF md.file_type = "Character" /\ md.rdev = ttynr
    THEN LET r == AppendMatch(b, to_bytes(file), alloc)
         IN [err |-> r.err, some |-> r.err = OK, buf |-> r.buf]
    ELSE [err |-> OK, some |-> FALSE, buf |-> b]

\* The loop over dirs ended: ENOENT with ENOTTY in its place.
NotFound_Enotty == Err(ENOTTY)

\* by_device_with_buffers_in's last line: Err(Errno::ENOENT).
NotFound == Err(ENOENT)

\* ------------------------------------------------------------ actions

\* by_device_with_buffers_in up to the loop over dirs: the guessed name, or
\* ENOTTY for a major that is not in the table.
by_device_with_buffers_in ==
    /\ pc = "start"
    /\ IF GuessName(rdev) = <<>>
       THEN /\ Return(Err(ENOTTY), <<>>, pbuf, dbuf, FALSE)
       ELSE /\ guess' = GuessName(rdev)
            /\ ri' = 1
            /\ pc' = "find_in_dir"
            /\ UNCHANGED <<others, fs, typed, rdev, dirs, pbuf, dbuf, fds, stack, cur, ret,
                           retries, faulted, trace>>

\* The head of the loop over dirs, and find_in_dir up to Dir::open:
\* path.push_c_str(dir).  After the last root the call returns ENOENT.
find_in_dir ==
    /\ pc = "find_in_dir"
    /\ IF ri > Len(dirs)
       THEN Return(NotFound, <<>>, pbuf, dbuf, FALSE)
       ELSE \E alloc \in AllocOutcomes(pbuf) :
              LET r == push_c_str(pbuf, dirs[ri], alloc)
              IN IF r.err # OK
                 THEN Return(Err(r.err), <<>>, pbuf, dbuf, alloc = "null")
                 ELSE /\ pbuf' = r.buf
                      /\ pc' = "open"
                      /\ UNCHANGED <<others, fs, typed, rdev, dirs, dbuf, guess, ri, fds, stack,
                                     cur, ret, retries, faulted, trace>>

\* Dir::open(dir): openat(AT_FDCWD, dir, O_RDONLY | O_DIRECTORY | O_CLOEXEC).
Dir_open ==
    /\ pc = "open"
    /\ \/ Eintr
       \/ \E e \in SysErrors : Return(Err(e), <<Ev("openat", "AT_FDCWD", dirs[ri], e)>>, pbuf, dbuf, TRUE)
       \/ /\ RootNode(fs, dirs[ri]) = "none"
          /\ Return(Err(ENOENT), <<Ev("openat", "AT_FDCWD", dirs[ri], ENOENT)>>,
                    pbuf, dbuf, FALSE)
       \/ /\ RootNode(fs, dirs[ri]) # "none"
          /\ LET fd == LowestFree(fds)
             IN /\ fds' = [fds EXCEPT ![fd] = [open |-> TRUE, node |-> RootNode(fs, dirs[ri]),
                                               pos |-> 0]]
                /\ stack' = <<[fd |-> fd, tell |-> 0, offset |-> 0, old_len |-> 0,
                               yielded |-> <<>>, sub |-> <<>>, resume |-> 0]>>
                /\ trace' = Append(trace, Ev("openat", "AT_FDCWD", dirs[ri], OK))
          /\ pc' = "guess"
          /\ retries' = 0
          /\ UNCHANGED <<others, fs, typed, rdev, dirs, pbuf, dbuf, guess, ri, cur, ret, faulted>>

\* try_path_guessing: fstatat(dirfd, guessing, AT_SYMLINK_NOFOLLOW).
try_path_guessing ==
    /\ pc = "guess"
    /\ LET w == Walk(fs, fds[Top.fd].node, to_bytes(guess))
       IN \/ Eintr
          \/ \E e \in SysErrors : Return(Err(e), <<Ev("fstatat", Top.fd, guess, e)>>, pbuf, dbuf, TRUE)
          \/ /\ w.err = ENOENT
             /\ pc' = "iter"
             /\ retries' = 0
             /\ trace' = Append(trace, Ev("fstatat", Top.fd, guess, ENOENT))
             /\ UNCHANGED <<others, fs, typed, rdev, dirs, pbuf, dbuf, guess, ri, fds, stack,
                            cur, ret, faulted>>
          \/ /\ w.err \notin {OK, ENOENT}
             /\ Return(Err(w.err), <<Ev("fstatat", Top.fd, guess, w.err)>>, pbuf, dbuf, FALSE)
          \/ /\ w.err = OK
             /\ \E alloc \in AllocOutcomes(pbuf) :
                  LET r == guess_accept(Stat(w.node), guess, rdev, pbuf, alloc)
                      ev == <<Ev("fstatat", Top.fd, guess, OK)>>
                  IN CASE r.err # OK -> Return(Err(r.err), ev, r.buf, dbuf, alloc = "null")
                       [] r.err = OK /\ r.some -> ReturnOk(ev, r.buf)
                       [] OTHER ->
                            /\ pc' = "iter"
                            /\ retries' = 0
                            /\ trace' = trace \o ev
                            /\ UNCHANGED <<others, fs, typed, rdev, dirs, pbuf, dbuf, guess, ri,
                                           fds, stack, cur, ret, faulted>>

\* DirIterator::new that leaves the descriptor where it is.
DirIterator_new_NoSeek ==
    /\ pc = "iter"
    /\ stack' = SetTop([Top EXCEPT !.offset = 0])
    /\ pc' = "next"
    /\ UNCHANGED <<others, fs, typed, rdev, dirs, pbuf, dbuf, guess, ri, fds, cur, ret,
                   retries, faulted, trace>>

\* DirIterator::new (dirfd.iter(buf) in scandir): lseek(fd, tell, SEEK_SET)
\* when tell is not 0; the iterator starts at offset 0 of buf as it is.
DirIterator_new ==
    /\ pc = "iter"
    /\ IF Top.tell # 0
       THEN \/ Eintr
            \/ \E e \in SysErrors : Return(Err(e), <<Ev("lseek", Top.fd, Top.tell, e)>>, pbuf, dbuf, TRUE)
            \/ /\ fds' = [fds EXCEPT ![Top.fd].pos = Top.tell]
               /\ trace' = Append(trace, Ev("lseek", Top.fd, Top.tell, OK))
               /\ stack' = SetTop([Top EXCEPT !.offset = 0])
               /\ pc' = "next"
               /\ retries' = 0
               /\ UNCHANGED <<others, fs, typed, rdev, dirs, pbuf, dbuf, guess, ri, cur, ret,
                              faulted>>
       ELSE /\ stack' = SetTop([Top EXCEPT !.offset = 0])
            /\ pc' = "next"
            /\ UNCHANGED <<others, fs, typed, rdev, dirs, pbuf, dbuf, guess, ri, fds, cur, ret,
                           retries, faulted, trace>>

\* DirIterator::buffer: the bytes of buf from offset on.
buffer_len(b, f) == b.len - f.offset

\* An arm that returns the record and leaves the Dir's tell as it is.
Yield_KeepTell(b, f) ==
    LET res == b.mem[f.offset + 1]
    IN [f EXCEPT !.offset = f.offset + res.d_reclen,
                 !.yielded = Append(f.yielded, to_bytes(res.d_name))]

\* The Some(Ok(res)) arm of DirIterator::next: the record at offset is
\* returned, offset moves past it and the Dir's tell becomes its d_off.
Yield(b, f) ==
    LET res == b.mem[f.offset + 1]
    IN [f EXCEPT !.offset = f.offset + res.d_reclen,
                 !.tell = res.d_off,
                 !.yielded = Append(f.yielded, to_bytes(res.d_name))]

\* DirIterator::next that ends the stream where the buffer is used up once
\* the directory was read, without the read that returns no byte.
DirIterator_next_NoLastRead ==
    /\ pc = "next"
    /\ IF buffer_len(dbuf, Top) < DIRENT_HDR
       THEN /\ stack' = SetTop([Top EXCEPT !.offset = 0])
            /\ IF dbuf.len > 0 /\ Top.yielded # <<>>
               THEN dbuf' = dbuf /\ pc' = "end"
               ELSE dbuf' = reset(dbuf) /\ pc' = "getdents64"
            /\ cur' = cur
       ELSE /\ stack' = SetTop(Yield(dbuf, Top))
            /\ cur' = dbuf.mem[Top.offset + 1]
            /\ dbuf' = dbuf
            /\ pc' = "entry"
    /\ UNCHANGED <<others, fs, typed, rdev, dirs, pbuf, guess, ri, fds, ret, retries, faulted,
                   trace>>

\* DirIterator::next up to the refill: an entry from the buffer when at
\* least a header is left in it, otherwise offset = 0 and buf.reset().
DirIterator_next ==
    /\ pc = "next"
    /\ IF buffer_len(dbuf, Top) < DIRENT_HDR
       THEN /\ stack' = SetTop([Top EXCEPT !.offset = 0])
            /\ dbuf' = reset(dbuf)
            /\ pc' = "getdents64"
            /\ cur' = cur
       ELSE /\ stack' = SetTop(Yield(dbuf, Top))
            /\ cur' = dbuf.mem[Top.offset + 1]
            /\ dbuf' = dbuf
            /\ pc' = "entry"
    /\ UNCHANGED <<others, fs, typed, rdev, dirs, pbuf, guess, ri, fds, ret, retries, faulted,
                   trace>>

\* The capacity getdents64 asks for after EINVAL.
grow_size(cap) == (cap * 3) \div 2

\* The system call of the loop of getdents64 in DirIterator::next, and what
\* next does with a refilled buffer: None when it holds no header, else an
\* entry.  On EINVAL the loop goes on to grow the buffer.
getdents64 ==
    /\ pc = "getdents64"
    /\ LET r == sys_getdents64(fs[fds[Top.fd].node], fds[Top.fd].pos, dbuf.cap, typed)
           ev == Ev("getdents64", Top.fd, dbuf.cap, r.err)
       IN \/ Eintr
          \/ \E e \in SysErrors : Return(Err(e), <<Ev("getdents64", Top.fd, dbuf.cap, e)>>, pbuf, dbuf, TRUE)
          \/ /\ r.err = EINVAL
             /\ pc' = "reserve"
             /\ trace' = Logged(trace, ev)
             /\ retries' = 0
             /\ UNCHANGED <<others, fs, typed, rdev, dirs, pbuf, dbuf, guess, ri, fds,
                            stack, cur, ret, faulted>>
          \/ /\ r.err = OK
             /\ LET filled == set_len([dbuf EXCEPT !.mem = CopyAt(dbuf.mem, 0, r.cells)],
                                      Len(r.cells))
                IN /\ dbuf' = filled
                   /\ IF buffer_len(filled, Top) < DIRENT_HDR
                      THEN /\ pc' = "end"
                           /\ stack' = stack
                           /\ cur' = cur
                      ELSE /\ pc' = "entry"
                           /\ stack' = SetTop(Yield(filled, Top))
                           /\ cur' = filled.mem[Top.offset + 1]
             /\ fds' = [fds EXCEPT ![Top.fd].pos = r.pos]
             /\ trace' = Append(trace, ev)
             /\ retries' = 0
             /\ UNCHANGED <<others, fs, typed, rdev, dirs, pbuf, guess, ri, ret, faulted>>

\* The Err(EINVAL) arm of that loop: buf.reserve(buf.capacity() * 3 / 2)?,
\* then the system call again.
getdents64_reserve ==
    /\ pc = "reserve"
    /\ \E alloc \in AllocOutcomes(dbuf) :
          LET g == reserve(dbuf, grow_size(dbuf.cap), alloc)
          IN IF g.err # OK
             THEN Return(Err(g.err), <<>>, pbuf, dbuf, alloc = "null")
             ELSE /\ dbuf' = g.buf
                  /\ pc' = "getdents64"
                  /\ UNCHANGED <<others, fs, typed, rdev, dirs, pbuf, guess, ri, fds,
                                 stack, cur, ret, retries, faulted, trace>>

\* The body of scandir's loop for the entry cur, up to the recursion: "." and
\* ".." are skipped; the type is the entry's hint, or fstatat's when the hint
\* is Unknown; a character device is compared by try_path (after fstatat),
\* a directory is entered, anything else is passed over.
scandir ==
    /\ pc = "entry"
    /\ LET nm == to_bytes(cur.d_name)
           hint == cur.d_type
           w == Walk(fs, fds[Top.fd].node, nm)
           ev(res) == <<Ev("fstatat", Top.fd, cur.d_name, res)>>
           skip(evs) ==
               /\ pc' = "next"
               /\ trace' = trace \o evs
               /\ retries' = 0
               /\ UNCHANGED <<others, fs, typed, rdev, dirs, pbuf, dbuf, guess, ri, fds, stack,
                              cur, ret, faulted>>
           enter(evs) ==
               /\ pc' = "open_at"
               /\ trace' = trace \o evs
               /\ retries' = 0
               /\ UNCHANGED <<others, fs, typed, rdev, dirs, pbuf, dbuf, guess, ri, fds, stack,
                              cur, ret, faulted>>
       IN IF nm = <<".">> \/ nm = <<".", ".">>
          THEN skip(<<>>)
          ELSE IF hint \in {"Unknown", "Character"}
          THEN \/ Eintr
               \/ \E e \in EntryErrors : Return(Err(e), ev(e), pbuf, dbuf, TRUE)
               \/ /\ w.err # OK
                  /\ Return(Err(w.err), ev(w.err), pbuf, dbuf, FALSE)
               \/ /\ w.err = OK
                  /\ LET md == Stat(w.node)
                         ft == IF hint = "Unknown" THEN md.file_type ELSE hint
                     IN CASE ft = "Character" ->
                               \E alloc \in AllocOutcomes(pbuf) :
                                  LET r == try_path(md, cur.d_name, rdev, pbuf, alloc)
                                  IN CASE r.err # OK -> Return(Err(r.err), ev(OK), r.buf, dbuf, alloc = "null")
                                       [] r.err = OK /\ r.some -> ReturnOk(ev(OK), r.buf)
                                       [] OTHER -> skip(ev(OK))
                          [] ft = "Directory" -> enter(ev(OK))
                          [] OTHER -> skip(ev(OK))
          ELSE IF hint = "Directory" THEN enter(<<>>)
          ELSE skip(<<>>)

\* A Directory arm that duplicates the descriptor of the directory (dup) and
\* opens the subdirectory relative to the duplicate.
Dir_open_at_Dup ==
    /\ pc = "open_at"
    /\ Len(stack) = 1
    /\ LET nm == to_bytes(cur.d_name)
           w == Walk(fs, fds[Top.fd].node, nm)
           dupfd == LowestFree(fds)
           duped == [fds EXCEPT ![dupfd] = fds[Top.fd]]
           fd == LowestFree(duped)
       IN /\ w.err = OK
          /\ Kind(w.node) = "Directory"
          /\ fds' = [duped EXCEPT ![fd] = [open |-> TRUE, node |-> w.node, pos |-> 0]]
          /\ stack' = Append(SetTop([Top EXCEPT !.old_len = pbuf.len, !.sub = nm]),
                             [fd |-> fd, tell |-> 0, offset |-> 0, old_len |-> 0,
                              yielded |-> <<>>, sub |-> <<>>, resume |-> 0])
          /\ trace' = trace \o <<Ev("dup", Top.fd, <<>>, OK), Ev("openat", dupfd, cur.d_name, OK)>>
    /\ pc' = "iter"
    /\ retries' = 0
    /\ UNCHANGED <<others, fs, typed, rdev, dirs, pbuf, dbuf, guess, ri, cur, ret, faulted>>

\* scandir's Directory arm: Dir::open_at(&dupfd, name), old_len = path.len(),
\* then the recursive call, which starts with dirfd.iter(buf).  dupfd is a Dir
\* made from dirfd's own descriptor number (Dir::from_raw_fd of
\* dirfd.as_raw_fd(), in a ManuallyDrop): no descriptor is made for it and
\* none is closed for it.
Dir_open_at ==
    /\ pc = "open_at"
    /\ LET nm == to_bytes(cur.d_name)
           w == Walk(fs, fds[Top.fd].node, nm)
           ev(res) == <<Ev("openat", Top.fd, cur.d_name, res)>>
       IN \/ Eintr
          \/ \E e \in EntryErrors : Return(Err(e), ev(e), pbuf, dbuf, TRUE)
          \/ /\ w.err # OK
             /\ Return(Err(w.err), ev(w.err), pbuf, dbuf, FALSE)
          \/ /\ w.err = OK
             /\ Kind(w.node) # "Directory"
             /\ Return(Err(ENOTDIR), ev(ENOTDIR), pbuf, dbuf, FALSE)
          \/ /\ w.err = OK
             /\ Kind(w.node) = "Directory"
             /\ LET fd == LowestFree(fds)
                IN /\ fds' = [fds EXCEPT ![fd] = [open |-> TRUE, node |-> w.node, pos |-> 0]]
                   /\ stack' = Append(SetTop([Top EXCEPT !.old_len = pbuf.len, !.sub = nm]),
                                      [fd |-> fd, tell |-> 0, offset |-> 0, old_len |-> 0,
                                       yielded |-> <<>>, sub |-> <<>>, resume |-> 0])
             /\ trace' = trace \o ev(OK)
             /\ pc' = "iter"
             /\ retries' = 0
             /\ UNCHANGED <<others, fs, typed, rdev, dirs, pbuf, dbuf, guess, ri, cur, ret, faulted>>

\* A return to the caller scandir whose alias of its descriptor (dupfd) is
\* dropped as a Dir: the caller's descriptor is closed with it.
scandir_return_DropAlias ==
    /\ pc = "end"
    /\ fds' = [fd \in FDs |->
                 IF fd = Top.fd \/ (Len(stack) > 1 /\ fd = stack[Len(stack) - 1].fd)
                 THEN Closed ELSE fds[fd]]
    /\ trace' = trace \o <<Ev("close", Top.fd, <<>>, OK)>>
                       \o (IF Len(stack) > 1
                           THEN <<Ev("close", stack[Len(stack) - 1].fd, <<>>, OK)>>
                           ELSE <<>>)
    /\ stack' = IF Len(stack) > 1
                THEN LET caller == stack[Len(stack) - 1]
                     IN Append(SubSeq(stack, 1, Len(stack) - 2),
                               [caller EXCEPT !.resume = Len(caller.yielded)])
                ELSE <<>>
    /\ IF Len(stack) > 1
       THEN /\ pbuf' = set_len(pbuf, stack[Len(stack) - 1].old_len)
            /\ pc' = "iter"
            /\ ri' = ri
       ELSE /\ pbuf' = pbuf
            /\ pc' = "find_in_dir"
            /\ ri' = ri + 1
    /\ UNCHANGED <<others, fs, typed, rdev, dirs, dbuf, guess, cur, ret, retries, faulted>>

\* A return to the caller scandir that cuts the path back to nothing.
scandir_return_Truncate ==
    /\ pc = "end"
    /\ fds' = [fds EXCEPT ![Top.fd] = Closed]
    /\ \E rs \in CloseResults(trace, 1) :
          trace' = Append(trace, Ev("close", Top.fd, <<>>, rs[1]))
    /\ stack' = IF Len(stack) > 1
                THEN LET caller == stack[Len(stack) - 1]
                     IN Append(SubSeq(stack, 1, Len(stack) - 2),
                               [caller EXCEPT !.resume = Len(caller.yielded)])
                ELSE <<>>
    /\ IF Len(stack) > 1
       THEN /\ pbuf' = set_len(pbuf, 0)
            /\ pc' = "iter"
            /\ ri' = ri
       ELSE /\ pbuf' = pbuf
            /\ pc' = "find_in_dir"
            /\ ri' = ri + 1
    /\ UNCHANGED <<others, fs, typed, rdev, dirs, dbuf, guess, cur, ret, retries, faulted>>

\* scandir returns Ok(None): its Dir is dropped.  In the caller scandir the
\* path is cut back to old_len and the iterator is made anew; in find_in_dir
\* the loop of by_device_with_buffers_in goes to the next root.
scandir_return ==
    /\ pc = "end"
    /\ fds' = [fds EXCEPT ![Top.fd] = Closed]
    /\ \E rs \in CloseResults(trace, 1) :
          trace' = Append(trace, Ev("close", Top.fd, <<>>, rs[1]))
    /\ stack' = IF Len(stack) > 1
                THEN LET caller == stack[Len(stack) - 1]
                     IN Append(SubSeq(stack, 1, Len(stack) - 2),
                               [caller EXCEPT !.resume = Len(caller.yielded)])
                ELSE <<>>
    /\ IF Len(stack) > 1
       THEN /\ pbuf' = set_len(pbuf, stack[Len(stack) - 1].old_len)
            /\ pc' = "iter"
            /\ ri' = ri
       ELSE /\ pbuf' = pbuf
            /\ pc' = "find_in_dir"
            /\ ri' = ri + 1
    /\ UNCHANGED <<others, fs, typed, rdev, dirs, dbuf, guess, cur, ret, retries, faulted>>

Next ==
    \/ by_device_with_buffers_in
    \/ find_in_dir
    \/ Dir_open
    \/ try_path_guessing
    \/ DirIterator_new
    \/ DirIterator_next
    \/ getdents64
    \/ getdents64_reserve
    \/ scandir
    \/ Dir_open_at
    \/ scandir_return

Spec == Init /\ [][Next]_vars

\* ------------------------------------------------------------ DirIterator alone
\* One Dir iterated to its end by a caller that takes every entry:
\* for entry in dir.iter(buf) { entry? }.

\* The longest directory iterated, "." and ".." not counted.
MaxIterList == 3
\* A fixed buffer with room for one long entry.
MidCap == 32

\* The entries of the directory: names of 1 and of 8 bytes (records of 24 and
\* of 32 bytes).
IterPool ==
    {E(<<"a">>, "reg"), E(<<"b">>, "cO"),
     E(<<"l", "o", "n", "g", "n", "a", "m", "e">>, "reg")}

IterBufs ==
    {ArrayBufferNew(SmallCap), ArrayBufferNew(MidCap), ArrayBufferNew(LargeCap),
     VecBufferNew, CBufferNew}
    \cup {VecWithCap(c) : c \in {1, 2, SmallCap, LargeCap}}
    \cup {CWithCap(c) : c \in {1, 2, SmallCap, LargeCap}}

\* The Dir is new (tell = 0), or was iterated before up to its second entry
\* while the kernel had read the directory to its end.
InitIter ==
    \E list \in ListsUpTo(IterPool, MaxIterList), b \in IterBufs, t \in {0, 2} :
        /\ fs = [n \in {"r1"} |-> Listing("r1", list)]
        /\ typed = TRUE
        /\ rdev = Dev(TTY_MAJOR, 1)
        /\ dirs = <<R1>>
        /\ dbuf = b
        /\ pbuf = ArrayBufferNew(SmallPath)
        /\ guess = <<>>
        /\ ri = 1
        /\ fds = [fd \in FDs |->
                    IF fd = 3
                    THEN [open |-> TRUE, node |-> "r1",
                          pos |-> IF t = 0 THEN 0 ELSE Len(list) + 2]
                    ELSE Closed]
        /\ stack = <<[fd |-> 3, tell |-> t, offset |-> 0, old_len |-> 0,
                      yielded |-> <<>>, sub |-> <<>>, resume |-> 0, from |-> t]>>
        /\ cur = NoEntry
        /\ pc = "iter"
        /\ ret = NoRet
        /\ retries = 0
        /\ faulted = FALSE
        /\ trace = <<>>
        /\ OthersIdle

\* The caller's loop takes the entry and calls next again.
for_entry ==
    /\ pc = "entry"
    /\ pc' = "next"
    /\ UNCHANGED <<others, fs, typed, rdev, dirs, pbuf, dbuf, guess, ri, fds, stack, cur,
                   ret, retries, faulted, trace>>

NextIter ==
    \/ DirIterator_new
    \/ DirIterator_next
    \/ getdents64
    \/ getdents64_reserve
    \/ for_entry

SpecIter == InitIter /\ [][NextIter]_vars

\* The caller's loop runs on: no step of it waits for anything but the
\* kernel's answer.
FairSpecIter == SpecIter /\ WF_vars(NextIter)

\* ------------------------------------------------------------ RawProcessInfo::parse

\* let mut buf = MaybeUninit::<[u8; 1024]>::uninit()
STAT_BUF_SIZE == 1024

\* The most bytes one read of the status file returns when it returns a part.
ReadChunk == 6

IsDigit(c) == c \in {"0", "1", "2", "3", "4", "5", "6", "7", "8", "9"}

DigitVal(c) ==
    CASE c = "0" -> 0 [] c = "1" -> 1 [] c = "2" -> 2 [] c = "3" -> 3 [] c = "4" -> 4
      [] c = "5" -> 5 [] c = "6" -> 6 [] c = "7" -> 7 [] c = "8" -> 8 [] c = "9" -> 9

Drop(buf, n) == SubSeq(buf, n + 1, Len(buf))

\* The number of leading digits of buf.
RECURSIVE DigitsLen(_)
DigitsLen(buf) ==
    IF buf = <<>> \/ ~IsDigit(Head(buf)) THEN 0 ELSE 1 + DigitsLen(Tail(buf))

\* A 32-bit integer is kept as its two 16-bit halves [hi, lo]: as a u32 it is
\* hi * 65536 + lo, as an i32 it is negative when hi >= 32768.
U32(n) ==
    IF n >= 0 THEN [hi |-> (n \div 65536) % 65536, lo |-> n % 65536]
    ELSE [hi |-> 65535 - ((((0 - n) - 1) \div 65536) % 65536),
          lo |-> 65535 - (((0 - n) - 1) % 65536)]

\* 0 - x in 32 bits.
Neg32(x) ==
    IF x.lo = 0 THEN [hi |-> (65536 - x.hi) % 65536, lo |-> 0]
    ELSE [hi |-> 65535 - x.hi, lo |-> 65536 - x.lo]

\* number = number * 10 + digit over the digits, in 32 bits.
RECURSIVE Accumulate(_, _)
Accumulate(digits, number) ==
    IF digits = <<>> THEN number
    ELSE LET lo == number.lo * 10 + DigitVal(Head(digits))
         IN Accumulate(Tail(digits),
                       [hi |-> (number.hi * 10 + (lo \div 65536)) % 65536, lo |-> lo % 65536])

\* atoi's from_radix_10_signed for a 32-bit integer: an optional sign, then
\* digits; the value and the number of bytes used, the sign included.
from_radix_10_signed(buf) ==
    LET offset == IF buf # <<>> /\ Head(buf) \in {"+", "-"} THEN 1 ELSE 0
        n == DigitsLen(Drop(buf, offset))
        mag == Accumulate(SubSeq(buf, offset + 1, offset + n), U32(0))
    IN [val |-> IF offset = 1 /\ Head(buf) = "-" THEN Neg32(mag) ELSE mag,
        len |-> offset + n]

\* parse_num
parse_num(buf) ==
    LET r == from_radix_10_signed(buf)
    IN IF r.len = 0 THEN [err |-> EINVAL, val |-> U32(0), rest |-> buf]
       ELSE [err |-> OK, val |-> r.val, rest |-> Drop(buf, r.len)]

\* skip_char
skip_char(buf, ch) ==
    IF buf # <<>> /\ Head(buf) = ch THEN [err |-> OK, rest |-> Tail(buf)]
    ELSE [err |-> EINVAL, rest |-> buf]

\* skip_space
skip_space(buf) == skip_char(buf, " ")

\* memchr::memchr: the index (from 0) of the first ch in buf, -1 for None.
memchr(ch, buf) ==
    IF \E i \in 1..Len(buf) : buf[i] = ch
    THEN (CHOOSE i \in 1..Len(buf) : buf[i] = ch /\ \A j \in 1..(i - 1) : buf[j] # ch) - 1
    ELSE -1

\* tty_nr with None for every negative value.
TtyOf_AnyNegative(tty_nr) ==
    IF tty_nr.hi >= 32768 THEN [some |-> FALSE, dev |-> U32(0)]
    ELSE [some |-> TRUE, dev |-> tty_nr]

\* tty_nr as parse returns it: None for -1, else the i32 taken as a u32.
TtyOf(tty_nr) ==
    IF tty_nr = U32(-1) THEN [some |-> FALSE, dev |-> U32(0)]
    ELSE [some |-> TRUE, dev |-> tty_nr]

RawProcessInfo(pid, session, tty) ==
    [tag |-> "Ok", pid |-> pid, session |-> session, tty |-> tty]

\* The parsing part of RawProcessInfo::parse, on the bytes that were read.
parse_fields(buf) ==
    LET pid == parse_num(buf)
        b1 == skip_space(pid.rest)
        b2 == skip_char(b1.rest, "(")
        i == memchr(")", b2.rest)
        b3 == skip_space(Drop(b2.rest, i + 1))
        j == memchr(" ", b3.rest)
        b4 == Drop(b3.rest, 2)
        ppid == parse_num(b4)
        b5 == skip_space(ppid.rest)
        n == memchr(" ", b5.rest)
        b6 == Drop(b5.rest, n + 1)
        session == parse_num(b6)
        b7 == skip_space(session.rest)
        tty_nr == parse_num(b7.rest)
    IN CASE pid.err # OK -> Err(EINVAL)
         [] b1.err # OK -> Err(EINVAL)
         [] b2.err # OK -> Err(EINVAL)
         [] i < 0 -> Err(EINVAL)
         [] b3.err # OK -> Err(EINVAL)
         [] j # 1 -> Err(EINVAL)
         [] ppid.err # OK -> Err(EINVAL)
         [] b5.err # OK -> Err(EINVAL)
         [] n <= 0 -> Err(EINVAL)
         [] session.err # OK -> Err(EINVAL)
         [] b7.err # OK -> Err(EINVAL)
         [] tty_nr.err # OK -> Err(EINVAL)
         [] OTHER -> RawProcessInfo(pid.val, session.val, TtyOf(tty_nr.val))

\* A number as the kernel prints it (%d).
Decimal(n) == IF n < 0 THEN <<"-">> \o write_to_ptr(0 - n) ELSE write_to_ptr(n)

\* The status record of a process: pid (comm) state ppid pgrp session tty_nr
\* and the fields after them.
StatRecord(p) ==
    Decimal(p.pid) \o <<" ", "(">> \o p.comm \o <<")", " ", p.state, " ">>
    \o Decimal(p.ppid) \o <<" ">> \o Decimal(p.pgrp) \o <<" ">>
    \o Decimal(p.session) \o <<" ">> \o Decimal(p.tty_nr) \o <<" ">>
    \o Decimal(p.tpgid) \o <<" ", "0", "\n">>

\* Command names: plain, with a space, with ")" and with both; the last one
\* ends like the head of a record.
Comms ==
    {<<"a">>, <<"a", " ", "b">>, <<"a", ")">>, <<"(", "a", ")">>,
     <<"a", ")", " ", "b">>,
     <<"a", ")", " ", "R", " ", "1", " ", "1", " ", "7", " ", "9">>}

Procs ==
    {[pid |-> 42, comm |-> c, state |-> "S", ppid |-> 1, pgrp |-> 42,
      session |-> se, tty_nr |-> t, tpgid |-> 42] :
        <<c, se, t>> \in Comms \X {5, 70} \X {0, 1025, -1, -2, -65537}}

InitParse ==
    \E p \in Procs :
        /\ proc = p
        /\ stat_buf = StatRecord(p)
        /\ plen = 0
        /\ ppc = "openat"
        /\ pinfo = NoRet
        /\ bop = NoOp
        /\ bprev = VecBufferNew
        /\ BsdIdle
        /\ fs = [n \in {"r1"} |-> Listing("r1", <<>>)]
        /\ typed = TRUE
        /\ rdev = Dev(TTY_MAJOR, 1)
        /\ dirs = <<>>
        /\ dbuf = VecBufferNew
        /\ pbuf = VecBufferNew
        /\ guess = <<>>
        /\ ri = 0
        /\ fds = [fd \in FDs |-> Closed]
        /\ stack = <<>>
        /\ cur = NoEntry
        /\ pc = "idle"
        /\ ret = NoRet
        /\ retries = 0
        /\ faulted = FALSE
        /\ trace = <<>>

\* parse returns r after the system calls evs; the FdHolder, when there is
\* one, is dropped: close, its result ignored.
ParseReturn(r, evs, inj) ==
    /\ pinfo' = r
    /\ ppc' = "done"
    /\ \E rs \in CloseResults(trace, 1) :
          trace' = trace \o evs
                   \o (IF fds[3].open THEN <<Ev("close", 3, <<>>, rs[1])>> ELSE <<>>)
    /\ fds' = [fds EXCEPT ![3] = Closed]
    /\ retries' = 0
    /\ faulted' = (faulted \/ inj)
    /\ UNCHANGED <<bsdvars, proc, stat_buf, plen, bop, bprev, fs, typed, rdev, dirs, pbuf, dbuf,
                   guess, ri, stack, cur, pc, ret>>

\* The opening of the status file: openat(CURRENT_DIRECTORY, path, flags).
parse_open ==
    /\ ppc = "openat"
    /\ \/ Eintr
       \/ \E e \in SysErrors : ParseReturn(Err(e), <<Ev("openat", "AT_FDCWD", <<"stat">>, e)>>, TRUE)
       \/ /\ fds' = [fds EXCEPT ![3] = [open |-> TRUE, node |-> "stat", pos |-> 0]]
          /\ trace' = Append(trace, Ev("openat", "AT_FDCWD", <<"stat">>, OK))
          /\ ppc' = "read"
          /\ retries' = 0
          /\ UNCHANGED <<bsdvars, proc, stat_buf, plen, pinfo, bop, bprev, fs, typed, rdev, dirs, pbuf,
                         dbuf, guess, ri, stack, cur, pc, ret, faulted>>

\* One round of the read loop; when the buffer is full or read returns 0,
\* the descriptor is closed and the bytes are parsed.
parse_read ==
    /\ ppc = "read"
    /\ IF plen >= STAT_BUF_SIZE
       THEN ParseReturn(parse_fields(SubSeq(stat_buf, 1, plen)), <<>>, FALSE)
       ELSE LET left == Min(Len(stat_buf) - fds[3].pos, STAT_BUF_SIZE - plen)
            IN \/ Eintr
               \/ \E e \in SysErrors : ParseReturn(Err(e), <<Ev("read", 3, STAT_BUF_SIZE - plen, e)>>, TRUE)
               \/ /\ left = 0
                  /\ ParseReturn(parse_fields(SubSeq(stat_buf, 1, plen)),
                                 <<Ev("read", 3, STAT_BUF_SIZE - plen, 0)>>, FALSE)
               \/ /\ left > 0
                  /\ \E n \in {left, Min(left, ReadChunk)} :
                        /\ plen' = plen + n
                        /\ fds' = [fds EXCEPT ![3].pos = fds[3].pos + n]
                        /\ trace' = Append(trace, Ev("read", 3, STAT_BUF_SIZE - plen, n))
                  /\ retries' = 0
                  /\ UNCHANGED <<bsdvars, proc, stat_buf, ppc, pinfo, bop, bprev, fs, typed, rdev, dirs,
                                 pbuf, dbuf, guess, ri, stack, cur, pc, ret, faulted>>

NextParse ==
    \/ parse_open
    \/ parse_read

SpecParse == InitParse /\ [][NextParse]_vars

\* ------------------------------------------------------------ malformed records
\* RawProcessInfo::parse on status records that are not what the kernel
\* prints: a well-formed record with one of its parts left out or replaced.

\* The parts of a record, in order.
Parts ==
    <<"pid", "sp1", "open", "comm", "close", "sp2", "state", "sp3", "ppid", "sp4",
      "pgrp", "sp5", "session", "sp6", "tty", "rest">>

WellFormed ==
    [pid |-> <<"4", "2">>, sp1 |-> <<" ">>, open |-> <<"(">>, comm |-> <<"a">>,
     close |-> <<")">>, sp2 |-> <<" ">>, state |-> <<"S">>, sp3 |-> <<" ">>,
     ppid |-> <<"1">>, sp4 |-> <<" ">>, pgrp |-> <<"4", "2">>, sp5 |-> <<" ">>,
     session |-> <<"5">>, sp6 |-> <<" ">>, tty |-> <<"1", "0", "2", "5">>,
     rest |-> <<" ", "4", "2", " ", "0", "\n">>]

\* The bytes of a record given by its parts.
RECURSIVE Joined(_, _)
Joined(r, i) == IF i > Len(Parts) THEN <<>> ELSE r[Parts[i]] \o Joined(r, i + 1)

TAB == "\t"

\* The malformations: the part changed and what is put in its place.
Malformations ==
    {<<"pid", <<>>>>, <<"pid", <<"x">>>>, <<"pid", <<"-">>>>, <<"sp1", <<>>>>,
     <<"open", <<>>>>, <<"close", <<>>>>, <<"sp2", <<>>>>,
     <<"state", <<>>>>, <<"state", <<"S", "S">>>>, <<"sp3", <<TAB>>>>,
     <<"ppid", <<>>>>, <<"pgrp", <<>>>>, <<"session", <<>>>>, <<"tty", <<>>>>,
     <<"sp4", <<TAB>>>>, <<"sp5", <<TAB>>>>, <<"sp6", <<TAB>>>>,
     <<"sp4", <<" ", " ">>>>, <<"sp5", <<" ", " ">>>>, <<"sp6", <<" ", " ">>>>}

InitMalformed ==
    \E m \in Malformations :
        /\ proc = [pid |-> 42, part |-> m[1], put |-> m[2]]
        /\ stat_buf = Joined([WellFormed EXCEPT ![m[1]] = m[2]], 1)
        /\ plen = 0
        /\ ppc = "openat"
        /\ pinfo = NoRet
        /\ bop = NoOp
        /\ bprev = VecBufferNew
        /\ BsdIdle
        /\ fs = [n \in {"r1"} |-> Listing("r1", <<>>)]
        /\ typed = TRUE
        /\ rdev = Dev(TTY_MAJOR, 1)
        /\ dirs = <<>>
        /\ dbuf = VecBufferNew
        /\ pbuf = VecBufferNew
        /\ guess = <<>>
        /\ ri = 0
        /\ fds = [fd \in FDs |-> Closed]
        /\ stack = <<>>
        /\ cur = NoEntry
        /\ pc = "idle"
        /\ ret = NoRet
        /\ retries = 0
        /\ faulted = FALSE
        /\ trace = <<>>

SpecMalformed == InitMalformed /\ [][NextParse]_vars

\* ------------------------------------------------------------ TtyInfo::current
\* RawProcessInfo::current / for_process followed by the resolution of the tty
\* they return: TtyInfo::current_with_buffers_in and its siblings.

\* The kernel's encoding of a device number in 32 bits (new_encode_dev), as
\* 16-bit halves: the major in bits 8..19, the minor in bits 0..7 and 20..31.
new_encode_dev(dev) ==
    [hi |-> (dev.major \div 256) + (dev.minor \div 256) * 16,
     lo |-> (dev.major % 256) * 256 + (dev.minor % 256)]

\* A 32-bit value as the signed integer the kernel prints with %d.
I32(x) ==
    IF x.hi >= 32768 THEN 0 - ((65535 - x.hi) * 65536 + (65535 - x.lo) + 1)
    ELSE x.hi * 65536 + x.lo

\* A process's controlling terminal: none, or a device.
NoCtty == [has |-> FALSE, dev |-> Dev(0, 0)]
Ctty(dev) == [has |-> TRUE, dev |-> dev]

\* Field 7 of the status record as the kernel fills it: the encoded device
\* number of the controlling terminal, and 0 when the process has none.
KernelTtyNr(ctty) == IF ctty.has THEN I32(new_encode_dev(ctty.dev)) ELSE 0

\* Dev::from(u32): the decoding of the 32-bit encoding.
DevFrom(x) ==
    Dev((x.hi % 16) * 256 + (x.lo \div 256), (x.lo % 256) + (x.hi \div 16) * 256)

\* Ok(None)
OkNone == [tag |-> "OkNone"]

\* The terminals of the processes looked at: none, a console, a
\* pseudo-terminal, a device outside the guess table, and the device whose
\* encoding is all ones.
Cttys ==
    {NoCtty, Ctty(Dev(TTY_MAJOR, 1)), Ctty(Dev(PTS_MAJOR, 70)), Ctty(Dev(7, 1)),
     Ctty(Dev(4095, 1048575))}

CurrentProcs ==
    {[pid |-> 42, comm |-> <<"a">>, state |-> "S", ppid |-> 1, pgrp |-> 42,
      session |-> 5, tty_nr |-> KernelTtyNr(c), tpgid |-> -1, ctty |-> c] :
        c \in Cttys}

\* The device directories the resolution would search.
CurrentCalls ==
    { [proc |-> p, dirs |-> <<R1>>, tree |-> t, bufs |-> b] :
        <<p, t, b>> \in
          UNION { {p} \X Trees(G0(DevFrom(new_encode_dev(p.ctty.dev))), 1, {NoDir})
                      \X {<<VecBufferNew, VecBufferNew>>,
                          <<VecWithCap(SmallCap), CBufferNew>>}
                  : p \in CurrentProcs } }

InitCurrent ==
    \E c \in CurrentCalls :
        /\ proc = c.proc
        /\ stat_buf = StatRecord(c.proc)
        /\ plen = 0
        /\ ppc = "openat"
        /\ pinfo = NoRet
        /\ bop = NoOp
        /\ bprev = VecBufferNew
        /\ BsdIdle
        /\ fs = c.tree
        /\ typed = TRUE
        /\ rdev = Dev(0, 0)
        /\ dirs = c.dirs
        /\ dbuf = c.bufs[1]
        /\ pbuf = c.bufs[2]
        /\ guess = <<>>
        /\ ri = 0
        /\ fds = [fd \in FDs |-> Closed]
        /\ stack = <<>>
        /\ cur = NoEntry
        /\ pc = "idle"
        /\ ret = NoRet
        /\ retries = 0
        /\ faulted = FALSE
        /\ trace = <<>>

\* TtyInfo::current_with_buffers_in after RawProcessInfo::current returned:
\* the error (?), Ok(None) for a tty of None (map and transpose), and the
\* call of by_device_with_buffers_in for Some(rdev).
TtyInfo_current ==
    /\ ppc = "done"
    /\ pc = "idle"
    /\ ppc' = "returned"
    /\ IF pinfo.tag = "Err"
       THEN /\ ret' = pinfo
            /\ pc' = "done"
            /\ rdev' = rdev
       ELSE IF ~pinfo.tty.some
       THEN /\ ret' = OkNone
            /\ pc' = "done"
            /\ rdev' = rdev
       ELSE /\ rdev' = DevFrom(pinfo.tty.dev)
            /\ pc' = "start"
            /\ ret' = ret
    /\ UNCHANGED <<bsdvars, proc, stat_buf, plen, pinfo, bop, bprev, fs, typed, dirs, pbuf, dbuf,
                   guess, ri, fds, stack, cur, retries, faulted, trace>>

NextCurrent ==
    \/ parse_open
    \/ parse_read
    \/ TtyInfo_current
    \/ Next

SpecCurrent == InitCurrent /\ [][NextCurrent]_vars

\* The call runs on: no step of it waits for anything but the kernel's
\* answer.
FairSpecCurrent == SpecCurrent /\ WF_vars(NextCurrent)

\* ------------------------------------------------------------ the guessed name
\* by_device_with_buffers_in for every minor up to MaxMinor and no candidate
\* root: the guessed name is made, the loop over dirs ends at once.

MaxMinor == 130

InitGuess ==
    \E ma \in Majors, mi \in 0..MaxMinor :
        /\ fs = [n \in {"r1"} |-> Listing("r1", <<>>)]
        /\ typed = TRUE
        /\ rdev = Dev(ma, mi)
        /\ dirs = <<>>
        /\ dbuf = VecBufferNew
        /\ pbuf = VecBufferNew
        /\ guess = <<>>
        /\ ri = 0
        /\ fds = [fd \in FDs |-> Closed]
        /\ stack = <<>>
        /\ cur = NoEntry
        /\ pc = "start"
        /\ ret = NoRet
        /\ retries = 0
        /\ faulted = FALSE
        /\ trace = <<>>
        /\ OthersIdle

NextGuess ==
    \/ by_device_with_buffers_in
    \/ find_in_dir

SpecGuess == InitGuess /\ [][NextGuess]_vars

\* ------------------------------------------------------------ a DirentBuf alone
\* A buffer of each variant used through the methods of DirentBuf and, as the
\* library does, through as_mut_ptr followed by set_len.

\* Calls made on one buffer.
MaxOps == 4
\* The capacity of the fixed buffer and the largest capacity asked for.
BufCap == 4
MaxReserve == 6

Slices == {<<"a">>, <<"b", "c">>}

InitBuf ==
    \E b \in {ArrayBufferNew(BufCap), VecBufferNew, CBufferNew} :
        /\ dbuf = b
        /\ bprev = b
        /\ BsdIdle
        /\ bop = NoOp
        /\ proc = NoProc
        /\ stat_buf = <<>>
        /\ plen = 0
        /\ ppc = "idle"
        /\ pinfo = NoRet
        /\ fs = [n \in {"r1"} |-> Listing("r1", <<>>)]
        /\ typed = TRUE
        /\ rdev = Dev(TTY_MAJOR, 1)
        /\ dirs = <<>>
        /\ pbuf = VecBufferNew
        /\ guess = <<>>
        /\ ri = 0
        /\ fds = [fd \in FDs |-> Closed]
        /\ stack = <<>>
        /\ cur = NoEntry
        /\ pc = "idle"
        /\ ret = NoRet
        /\ retries = 0
        /\ faulted = FALSE
        /\ trace = <<>>

\* The call op(arg) turned dbuf into b with result err.
Called(op, arg, b, err) ==
    /\ bop.n < MaxOps
    /\ bop.op # "drop"
    /\ dbuf' = b
    /\ bprev' = dbuf
    /\ bop' = [op |-> op, arg |-> arg, err |-> err, n |-> bop.n + 1]
    /\ UNCHANGED <<bsdvars, proc, stat_buf, plen, ppc, pinfo, fs, typed, rdev, dirs, pbuf, guess, ri,
                   fds, stack, cur, pc, ret, retries, faulted, trace>>

buf_reset == Called("reset", <<>>, reset(dbuf), OK)

buf_reserve ==
    \E n \in 0..MaxReserve, alloc \in AllocOutcomes(dbuf) :
        LET r == reserve(dbuf, n, alloc)
        IN Called("reserve", n, r.buf, r.err)

buf_push_slice ==
    \E s \in Slices, alloc \in AllocOutcomes(dbuf) :
        LET r == push_slice(dbuf, s, alloc)
        IN Called("push_slice", s, r.buf, r.err)

buf_push_c_str ==
    \E alloc \in AllocOutcomes(dbuf) :
        LET r == push_c_str(dbuf, <<"d", NUL>>, alloc)
        IN Called("push_c_str", <<"d", NUL>>, r.buf, r.err)

\* A write through as_mut_ptr into the spare capacity, at index i >= len.
buf_write ==
    \E i \in dbuf.len..(dbuf.cap - 1) :
        Called("write", i, [dbuf EXCEPT !.mem = CopyAt(dbuf.mem, i, <<"w">>)], OK)

\* set_len as the library calls it: to a length the buffer had (scandir's
\* path.set_len(old_len)), or over bytes written before (getdents64).
buf_set_len ==
    \E n \in 0..dbuf.cap :
        /\ \A i \in 1..n : dbuf.mem[i] # UNINIT
        /\ Called("set_len", n, set_len(dbuf, n), OK)

buf_shrink_to_fit ==
    \E outcome \in ShrinkOutcomes(dbuf) :
        Called("shrink_to_fit", outcome, shrink_to_fit(dbuf, outcome), OK)

\* The buffer goes out of scope.
buf_drop == Called("drop", <<>>, drop(dbuf), OK)

NextBuf ==
    \/ buf_drop
    \/ buf_reset
    \/ buf_reserve
    \/ buf_push_slice
    \/ buf_push_c_str
    \/ buf_write
    \/ buf_set_len
    \/ buf_shrink_to_fit

SpecBuf == InitBuf /\ [][NextBuf]_vars

\* ------------------------------------------------------------ bsd::proc_info
\* RawProcessInfo::for_process of the BSD variants: the session from getsid
\* (Apple), the kinfo_proc record from sysctl through bsd::proc_info, the
\* fields taken from the record, the record released.

\* mem::size_of::<T>() of the record asked for.
RecSize == 20

\* The bytes the kernel may have to return for the request.
Needs == {RecSize, RecSize + 3, RecSize + 7}

ESRCH == "ESRCH"
EPERM == "EPERM"

\* The errors of sysctl besides ENOMEM and "no such process".
SysctlErrors == {EPERM}

\* A call of the allocator or of the kernel as recorded in btrace.
Call(op, arg, res) == [op |-> op, arg |-> arg, res |-> res]

\* The variables of the Linux variant.
linuxvars == <<fs, typed, rdev, dirs, pbuf, dbuf, guess, ri, fds, stack, cur, pc,
               ret, retries, faulted, trace, proc, stat_buf, plen, ppc, pinfo, bop, bprev>>

LinuxIdle ==
    /\ fs = [n \in {"r1"} |-> Listing("r1", <<>>)]
    /\ typed = TRUE
    /\ rdev = Dev(TTY_MAJOR, 1)
    /\ dirs = <<>>
    /\ dbuf = VecBufferNew
    /\ pbuf = VecBufferNew
    /\ guess = <<>>
    /\ ri = 0
    /\ fds = [fd \in FDs |-> Closed]
    /\ stack = <<>>
    /\ cur = NoEntry
    /\ pc = "idle"
    /\ ret = NoRet
    /\ retries = 0
    /\ faulted = FALSE
    /\ trace = <<>>
    /\ proc = NoProc
    /\ stat_buf = <<>>
    /\ plen = 0
    /\ ppc = "idle"
    /\ pinfo = NoRet
    /\ bop = NoOp
    /\ bprev = VecBufferNew

\* The processes asked about.  at_getsid and at_sysctl: whether a process
\* with the pid exists when getsid and when sysctl is called (a process may
\* exit, and the pid may be given to a new one, between the two calls).
KProcs ==
    [variant : {"apple", "freebsd"}, pid : {42}, at_getsid : BOOLEAN, at_sysctl : BOOLEAN,
     sid : {7}, uid : {1000}, tdev : {-1, 5}, need : Needs]

InitBsd ==
    \E k \in KProcs :
        /\ kproc = k
        /\ sid = 0
        /\ size = 0
        /\ ki_proc = NullBlock
        /\ bpc = IF k.variant = "apple" THEN "getsid" ELSE "proc_info"
        /\ bret = NoRet
        /\ btrace = <<>>
        /\ owners = <<>>
        /\ LinuxIdle

\* Apple's for_process, first line: session = getsid(pid) as u32.  getsid
\* returns the session id, or -1 when there is no such process.
getsid ==
    /\ bpc = "getsid"
    /\ LET r == IF kproc.at_getsid THEN kproc.sid ELSE -1
       IN /\ sid' = U32(r)
          /\ btrace' = Append(btrace, Call("getsid", kproc.pid, r))
    /\ bpc' = "proc_info"
    /\ UNCHANGED <<linuxvars, kproc, size, ki_proc, bret, owners>>

\* proc_info up to its loop: ki_proc = null, size = size_of::<T>().
proc_info ==
    /\ bpc = "proc_info"
    /\ ki_proc' = NullBlock
    /\ size' = RecSize
    /\ bpc' = "realloc"
    /\ UNCHANGED <<linuxvars, kproc, sid, bret, btrace, owners>>

\* The loop that would ask for the size as it is.
grow_tenth_None(n) == n

\* size += size / 10 as the loop has it.
grow_tenth(n) == n + n \div 10

\* The head of the loop: size += size / 10, then realloc(ki_proc, size).
\* When realloc returns null the block is as it was and the loop ends with
\* rc = -1, errno being ENOMEM.
proc_info_realloc ==
    /\ bpc = "realloc"
    /\ size' = grow_tenth(size)
    /\ \/ /\ ki_proc' = [state |-> "live", bytes |-> size']
          /\ btrace' = Append(btrace, Call("realloc", size', OK))
          /\ bpc' = "sysctl"
          /\ bret' = bret
       \/ /\ ki_proc' = ki_proc
          /\ btrace' = Append(btrace, Call("realloc", size', "null"))
          /\ bpc' = "exit"
          /\ bret' = Err(ENOMEM)
    /\ UNCHANGED <<linuxvars, kproc, sid, owners>>

\* sysctl(mibs, ki_proc, &size): the record when the buffer holds it (size
\* becomes the bytes written), ENOMEM when it does not (the loop goes on),
\* ESRCH when there is no such process, or another error.
proc_info_sysctl ==
    /\ bpc = "sysctl"
    /\ \/ \E e \in SysctlErrors :
             /\ btrace' = Append(btrace, Call("sysctl", size, e))
             /\ bret' = Err(e)
             /\ bpc' = "exit"
             /\ size' = size
       \/ /\ ~kproc.at_sysctl
          /\ btrace' = Append(btrace, Call("sysctl", size, ESRCH))
          /\ bret' = Err(ESRCH)
          /\ bpc' = "exit"
          /\ size' = size
       \/ /\ kproc.at_sysctl
          /\ kproc.need > size
          /\ btrace' = Append(btrace, Call("sysctl", size, ENOMEM))
          /\ bret' = bret
          /\ bpc' = "realloc"
          /\ size' = size
       \/ /\ kproc.at_sysctl
          /\ kproc.need <= size
          /\ btrace' = Append(btrace, Call("sysctl", size, OK))
          /\ bret' = bret
          /\ bpc' = "ok"
          /\ size' = kproc.need
    /\ UNCHANGED <<linuxvars, kproc, sid, ki_proc, owners>>

\* A free that leaves the block as it is.
free_Leak(b) == b

\* free(p) as the allocator sees it.
free(b) ==
    CASE b.state = "live" -> [b EXCEPT !.state = "freed"]
      [] b.state = "freed" -> [b EXCEPT !.state = "double_freed"]
      [] OTHER -> b

\* After the loop, rc == -1: the block is freed when there is one, the error
\* is returned (and by for_process, through ?).
proc_info_err ==
    /\ bpc = "exit"
    /\ IF ki_proc.state # "null"
       THEN /\ ki_proc' = free(ki_proc)
            /\ btrace' = Append(btrace, Call("free", ki_proc.bytes, OK))
       ELSE /\ ki_proc' = ki_proc
            /\ btrace' = btrace
    /\ bpc' = "done"
    /\ UNCHANGED <<linuxvars, kproc, sid, size, bret, owners>>

\* After the loop, rc != -1: Ok(CBox::from_raw(ki_proc)).
proc_info_ok ==
    /\ bpc = "ok"
    /\ owners' = <<[kind |-> "CBox", live |-> TRUE]>>
    /\ bpc' = "extract"
    /\ UNCHANGED <<linuxvars, kproc, sid, size, ki_proc, bret, btrace>>

\* The session of the record returned: from getsid on Apple, ki_sid of the
\* record elsewhere.
SessionOf(k, s) == IF k.variant = "apple" THEN s ELSE U32(k.sid)

\* for_process after proc_info: the fields are read through the CBox, the
\* terminal is None for the "no terminal" device number.
for_process_extract ==
    /\ bpc = "extract"
    /\ btrace' = Append(btrace, Call("read", ki_proc.state, OK))
    /\ bret' = [tag |-> "Ok", pid |-> kproc.pid, uid |-> kproc.uid,
                session |-> SessionOf(kproc, sid),
                tty |-> IF kproc.tdev = -1 THEN [some |-> FALSE, dev |-> 0]
                        ELSE [some |-> TRUE, dev |-> kproc.tdev]]
    /\ bpc' = "drop"
    /\ UNCHANGED <<linuxvars, kproc, sid, size, ki_proc, owners>>

\* The end of for_process: ki_proc goes out of scope, Drop for CBox frees the
\* block.
CBox_drop ==
    /\ bpc = "drop"
    /\ ki_proc' = free(ki_proc)
    /\ btrace' = Append(btrace, Call("free", ki_proc.bytes, OK))
    /\ owners' = <<[kind |-> "CBox", live |-> FALSE]>>
    /\ bpc' = "done"
    /\ UNCHANGED <<linuxvars, kproc, sid, size, bret>>

NextBsd ==
    \/ getsid
    \/ proc_info
    \/ proc_info_realloc
    \/ proc_info_sysctl
    \/ proc_info_err
    \/ proc_info_ok
    \/ for_process_extract
    \/ CBox_drop

SpecBsd == InitBsd /\ [][NextBsd]_vars

\* ------------------------------------------------------------ owners of a block
\* The values of the BSD variants that own memory of the C allocator: a
\* TtyInfo (the path, from malloc in by_device) and a CBox (the record, from
\* realloc in proc_info).  Both derive Clone and both free in Drop.  owners
\* holds the values made so far, each with whether it is still in scope;
\* ki_proc is the one block all of them point to.

\* The clones made of one value.
MaxClones == 2

\* devname(rdev, S_IFCHR): the name of the device, "" for NULL.
DevNames == (5 :> <<"t", "t", "y", "5">>) @@ (6 :> <<"c", "o", "n">>) @@ (9 :> <<>>)

InitOwn ==
    \E kind \in {"TtyInfo", "CBox"}, d \in DOMAIN DevNames :
        /\ kproc = [variant |-> kind, rdev |-> d]
        /\ sid = 0
        /\ size = 0
        /\ ki_proc = NullBlock
        /\ bpc = IF kind = "TtyInfo" THEN "by_device" ELSE "from_raw"
        /\ bret = NoRet
        /\ btrace = <<>>
        /\ owners = <<>>
        /\ LinuxIdle

\* TtyInfo::by_device: devname, then malloc(5 + name.len() + 1), then the
\* copies of "/dev/", of the name and of the terminator.
TtyInfo_by_device ==
    /\ bpc = "by_device"
    /\ LET name == DevNames[kproc.rdev]
           bytes == 5 + Len(name) + 1
       IN IF name = <<>>
          THEN /\ bret' = Err(ENOENT)
               /\ btrace' = Append(btrace, Call("devname", kproc.rdev, "NULL"))
               /\ bpc' = "done"
               /\ UNCHANGED <<ki_proc, owners, size>>
          ELSE \/ /\ bret' = Err(ENOMEM)
                  /\ btrace' = btrace \o <<Call("devname", kproc.rdev, OK),
                                            Call("malloc", bytes, "NULL")>>
                  /\ bpc' = "done"
                  /\ UNCHANGED <<ki_proc, owners, size>>
               \/ /\ ki_proc' = [state |-> "live", bytes |-> bytes]
                  /\ size' = bytes
                  /\ owners' = <<[kind |-> "TtyInfo", live |-> TRUE]>>
                  /\ bret' = [tag |-> "Ok", dev |-> kproc.rdev]
                  /\ btrace' = btrace \o <<Call("devname", kproc.rdev, OK),
                                            Call("malloc", bytes, OK)>>
                  /\ bpc' = "owned"
    /\ UNCHANGED <<linuxvars, kproc, sid>>

\* CBox::from_raw(ki_proc) on the block proc_info filled.
CBox_from_raw ==
    /\ bpc = "from_raw"
    /\ \E n \in Needs :
          /\ ki_proc' = [state |-> "live", bytes |-> grow_tenth(n)]
          /\ size' = n
          /\ btrace' = Append(btrace, Call("realloc", grow_tenth(n), OK))
    /\ owners' = <<[kind |-> "CBox", live |-> TRUE]>>
    /\ bret' = NoRet
    /\ bpc' = "owned"
    /\ UNCHANGED <<linuxvars, kproc, sid>>

\* #[derive(Clone)] on TtyInfo and on CBox: the fields are cloned, the
\* pointer among them; the clone points to the block of the original.
derive_Clone ==
    /\ bpc = "owned"
    /\ Len(owners) <= MaxClones
    /\ \E i \in 1..Len(owners) :
          /\ owners[i].live
          /\ owners' = Append(owners, [kind |-> owners[i].kind, live |-> TRUE])
          /\ btrace' = Append(btrace, Call("clone", i, OK))
    /\ UNCHANGED <<linuxvars, kproc, sid, size, ki_proc, bret, bpc>>

\* TtyInfo::path / Deref for CBox on a value in scope: a read through its
\* pointer, of the block in the state it is in.
deref ==
    /\ bpc = "owned"
    /\ \E i \in 1..Len(owners) :
          /\ owners[i].live
          /\ bret' = [tag |-> "Read", owner |-> i, state |-> ki_proc.state]
    /\ UNCHANGED <<linuxvars, kproc, sid, size, ki_proc, btrace, owners, bpc>>

\* Drop for TtyInfo and for CBox, of a value that goes out of scope:
\* libc::free of its pointer.
Drop_drop ==
    /\ bpc = "owned"
    /\ \E i \in 1..Len(owners) :
          /\ owners[i].live
          /\ owners' = [owners EXCEPT ![i].live = FALSE]
          /\ ki_proc' = free(ki_proc)
          /\ btrace' = Append(btrace, Call("free", i, OK))
    /\ UNCHANGED <<linuxvars, kproc, sid, size, bret, bpc>>

NextOwn ==
    \/ TtyInfo_by_device
    \/ CBox_from_raw
    \/ derive_Clone
    \/ deref
    \/ Drop_drop

SpecOwn == InitOwn /\ [][NextOwn]_vars

\* ------------------------------------------------------------ claims

Done == pc = "done"

Issued(op) == \E i \in 1..Len(trace) : trace[i].op = op

\* Whether a path buffer can take n bytes: a fixed buffer has room for them.
Fits(b, n) == b.kind # "Array" \/ b.cap >= n

\* The guessed name exists under dirs[1] as a character device with the
\* target device number.
GuessIsTarget ==
    /\ GuessName(rdev) # <<>>
    /\ dirs # <<>>
    /\ RootNode(fs, dirs[1]) # "none"
    /\ Walk(fs, RootNode(fs, dirs[1]), G0(rdev)).err = OK
    /\ Walk(fs, RootNode(fs, dirs[1]), G0(rdev)).node = "cT"

\* C1: when the guessed name exists under the (first) candidate root as a
\* character device with the target device number, no getdents64 is ever
\* issued, and the call, unless a system call or an allocation fails,
\* returns Ok with the path root + "/" + guessed name.
C1_GuessNoRead ==
    GuessIsTarget =>
        /\ ~Issued("getdents64")
        /\ ~Issued("lseek")
        /\ (Done /\ ~faulted /\ Fits(pbuf, Len(to_bytes(dirs[1])) + Len(G0(rdev)) + 2)
              => /\ ret.tag = "Ok"
                 /\ ret.dev = rdev
                 /\ TtyInfo_path(ret) = to_bytes(dirs[1]) \o <<SLASH>> \o G0(rdev))
        /\ (Done /\ ret.tag = "Err" => ret.errno \in SysErrors \cup {ENOMEM})

C1_Witness ==
    /\ GuessIsTarget
    /\ Done
    /\ ret.tag = "Ok"
    /\ rdev = Dev(PTS_MAJOR, 70)
    /\ Issued("fstatat")

\* C2: a device whose major is not in the guess table gets ENOTTY at once:
\* no system call is issued and the path buffer is not written.
C2_UnmappedMajor ==
    rdev.major \notin {TTY_MAJOR, PTS_MAJOR, TTY_ACM_MAJOR, TTY_USB_MAJOR} =>
        /\ pc \in {"start", "done"}
        /\ trace = <<>>
        /\ pbuf.len = 0
        /\ \A i \in 1..Len(pbuf.mem) : pbuf.mem[i] = UNINIT
        /\ \A fd \in FDs : ~fds[fd].open
        /\ (Done => ret = Err(ENOTTY))

C2_Witness ==
    /\ rdev.major = 7
    /\ Done
    /\ ret = Err(ENOTTY)
    /\ dirs = <<R1>>
    /\ Len(fs["r1"]) > 2

\* C3: when the major is in the table and the loop over the roots ends (every
\* root was opened, its guess checked and its scan finished without a match,
\* or there is no root), the call returns ENOENT, never a TtyInfo.
C3_NotFound ==
    (Done /\ GuessName(rdev) # <<>> /\ ri > Len(dirs)) => ret = Err(ENOENT)

C3_Witness ==
    /\ Done
    /\ Len(dirs) = 2
    /\ ri = 3
    /\ ret = Err(ENOENT)
    /\ Issued("getdents64")

\* The file system from "/": the candidate roots under their names.
FullTree ==
    [n \in DOMAIN fs \cup {"top"} |->
        IF n = "top"
        THEN <<E(<<"d">>, "r1")>> \o (IF "r2" \in DOMAIN fs THEN <<E(<<"e">>, "r2")>> ELSE <<>>)
        ELSE fs[n]]

\* The kernel's walk of an absolute path.
AbsWalk(p) ==
    IF p # <<>> /\ Head(p) = SLASH THEN Walk(FullTree, "top", Tail(p))
    ELSE [err |-> ENOENT, node |-> "none"]

\* The places of the tree that hold a character device with the target number.
Targets == {<<n, i>> \in (DOMAIN fs) \X (1..(MaxList + 2)) : i <= Len(fs[n]) /\ fs[n][i].node = "cT"}

\* One root, the guessed name does not exist under it, and the only device
\* with the target number lies in a subdirectory of the root.
OnlyNested ==
    /\ GuessName(rdev) # <<>>
    /\ dirs = <<R1>>
    /\ Walk(fs, "r1", G0(rdev)).err = ENOENT
    /\ Cardinality(Targets) = 1
    /\ \A t \in Targets : t[1] \in {"pts", "pp", "d"}

TargetName == LET t == CHOOSE t \in Targets : TRUE IN fs[t[1]][t[2]].name

\* The name handed to the last fstatat of the call: the entry that matched,
\* when the call succeeded.
MatchedName ==
    LET i == CHOOSE i \in 1..Len(trace) :
                 /\ trace[i].op = "fstatat"
                 /\ \A j \in (i + 1)..Len(trace) : trace[j].op # "fstatat"
    IN to_bytes(trace[i].arg)

\* C4: when the only device with the target number lies in a subdirectory of
\* the root and the guessed name does not exist, the call (no failure of a
\* system call or of memory put aside) succeeds and the last component of
\* the returned path is the node's name.
C4_NestedFound ==
    (Done /\ ~faulted /\ OnlyNested /\ ret # Err(ENOMEM)) =>
        /\ ret.tag = "Ok"
        /\ TtyInfo_name(ret) = TargetName

\* C5: whenever the call succeeds (here: in the first root) the returned path
\* is the absolute path of the matched node: a status query on it gives the
\* character device with the target number.
C5_AbsolutePath ==
    (Done /\ ret.tag = "Ok" /\ ri = 1) =>
        /\ AbsWalk(TtyInfo_path(ret)).err = OK
        /\ AbsWalk(TtyInfo_path(ret)).node = "cT"

\* C6: for every position of the matching root, the returned buffer holds
\* exactly root + "/" + name + NUL and the offset is where name starts.
C6_RootKPath ==
    (Done /\ ret.tag = "Ok") =>
        /\ as_slice(ret.buf) = to_bytes(dirs[ri]) \o <<SLASH>> \o MatchedName \o <<NUL>>
        /\ ret.offset = Len(to_bytes(dirs[ri])) + 1
        /\ TtyInfo_name(ret) = MatchedName

\* The same for a match in the first root only.
C6_FirstRootPath ==
    (Done /\ ret.tag = "Ok" /\ ri = 1) =>
        /\ as_slice(ret.buf) = to_bytes(dirs[ri]) \o <<SLASH>> \o MatchedName \o <<NUL>>
        /\ ret.offset = Len(to_bytes(dirs[ri])) + 1
        /\ TtyInfo_name(ret) = MatchedName

IsPrefix(a, b) == Len(a) <= Len(b) /\ SubSeq(b, 1, Len(a)) = a

ListedNames(node) == [i \in 1..Len(fs[node]) |-> fs[node][i].name]

\* C7: in every live scandir whose scan of a subdirectory has returned, the
\* names its directory yielded since are the entries that follow the
\* subdirectory's entry in the directory, in their order, each once; all of
\* them when the iteration has ended.
C7_ParentResumes ==
    \A i \in 1..Len(stack) :
        LET f == stack[i]
            names == ListedNames(fds[f.fd].node)
            k == Find(fs[fds[f.fd].node], f.sub)
            after == SubSeq(f.yielded, f.resume + 1, Len(f.yielded))
            rest == SubSeq(names, k + 1, Len(names))
        IN f.resume > 0 =>
              /\ IsPrefix(after, rest)
              /\ (i = Len(stack) /\ pc = "end" => after = rest)

C7_Reached ==
    /\ pc = "end"
    /\ Len(stack) = 1
    /\ Top.resume > 0
    /\ Len(Top.yielded) > Top.resume

\* What the iteration has to yield: the names of the directory from the
\* Dir's cursor on.
IterExpected ==
    LET names == ListedNames("r1")
    IN SubSeq(names, stack[1].from + 1, Len(names))

\* C8: over a buffer that can grow, whatever its capacity, the iteration
\* comes to an end (or to the error of a failed system call or allocation),
\* and at its end it has yielded every entry once, in order.
C8_SameNames ==
    /\ <>(pc \in {"end", "done"})
    /\ [](pc = "end" => Top.yielded = IterExpected)

\* The names are right whenever the end is reached.
C8_NamesAtEnd == pc = "end" => Top.yielded = IterExpected

\* Growth works from a capacity of 2 on: a small buffer that yields all.
C8_GrownAndDone ==
    /\ pc = "end"
    /\ dbuf.kind = "Vec"
    /\ Len(Top.yielded) = MaxIterList + 2
    /\ \E i \in 1..Len(trace) : trace[i].op = "getdents64" /\ trace[i].arg = 2

\* The fields the kernel printed are the ones parse has to return.
ParsedAsPrinted ==
    /\ pinfo.tag = "Ok"
    /\ pinfo.pid = U32(proc.pid)
    /\ pinfo.session = U32(proc.session)
    /\ pinfo.tty = TtyOf(U32(proc.tty_nr))

HasParen(comm) == \E i \in 1..Len(comm) : comm[i] = ")"

\* C9: for every status record, also when the command name holds ")" or
\* spaces, parse (no system call failing) returns the record's session and
\* tty.
C9_LastParen == (ppc = "done" /\ ~faulted) => ParsedAsPrinted

\* The same for command names without ")".
C9_NoParenInName == (ppc = "done" /\ ~faulted /\ ~HasParen(proc.comm)) => ParsedAsPrinted

C9_NoParenReached ==
    /\ ppc = "done"
    /\ proc.comm = <<"a", " ", "b">>
    /\ proc.tty_nr = 1025
    /\ ParsedAsPrinted

\* C10: a successful reserve leaves len and the bytes below len as they
\* were, and so does a write at an index from len on.
C10_ReservePreserves ==
    (bop.op \in {"reserve", "write"} /\ bop.err = OK) =>
        /\ dbuf.len = bprev.len
        /\ as_slice(dbuf) = as_slice(bprev)

\* The same for a buffer whose pointer is not one to a released block.
C10_ValidPreserves ==
    (bop.op \in {"reserve", "write"} /\ bop.err = OK /\ bprev.ptr # "freed") =>
        /\ dbuf.len = bprev.len
        /\ as_slice(dbuf) = as_slice(bprev)
        /\ (bop.op = "reserve" => dbuf.cap >= bop.arg)

C10_Reallocated ==
    /\ bop.op = "reserve"
    /\ bop.err = OK
    /\ bprev.ptr = "live"
    /\ bprev.len > 0
    /\ dbuf.cap > bprev.cap
    /\ as_slice(dbuf) = as_slice(bprev)

\* C11: in every state reached by calls of reset, reserve, push_slice,
\* push_c_str, shrink_to_fit and the library's uses of set_len, the buffer's
\* len is at most its capacity; after a successful reserve(n) the capacity is
\* at least n.
C11_LenWithinCapacity ==
    /\ dbuf.len <= dbuf.cap
    /\ (bop.op = "reserve" /\ bop.err = OK => dbuf.cap >= bop.arg)

\* A CBuffer that was grown, filled and then shrunk to its length.
C11_Witness ==
    /\ bop.op = "shrink_to_fit"
    /\ dbuf.kind = "C"
    /\ dbuf.len > 0
    /\ dbuf.cap = dbuf.len
    /\ bprev.cap > bprev.len

\* The same bound on both buffers of a resolution, where set_len is called
\* by the refill (dir.rs:262) and by scandir (mod.rs:172).
C11_InResolution ==
    /\ dbuf.len <= dbuf.cap
    /\ pbuf.len <= pbuf.cap
    /\ (ret.tag = "Ok" => ret.buf.len <= ret.buf.cap)

\* A system call on a device directory: every call but those on the status
\* file.
DirectoryOps ==
    {i \in 1..Len(trace) :
        \/ trace[i].op \in {"fstatat", "getdents64", "lseek"}
        \/ trace[i].op = "openat" /\ trace[i].arg # <<"stat">>}

C12_MinusOneIsNone ==
    (pc = "done" /\ ~faulted /\ proc.tty_nr = -1) =>
        /\ ret = OkNone
        /\ DirectoryOps = {}

C12_MinusOneReached ==
    /\ pc = "done"
    /\ ~faulted
    /\ proc.tty_nr = -1
    /\ ret = OkNone

\* C13: no operation returns EINTR or EAGAIN: a system call that fails with
\* one of them is issued again.
C13_NoTransientError ==
    /\ (pinfo.tag = "Err" => pinfo.errno \notin {EINTR, EAGAIN})
    /\ (ret.tag = "Err" => ret.errno \notin {EINTR, EAGAIN})

\* The same for EINTR alone.
C13_EintrAbsorbed ==
    /\ (pinfo.tag = "Err" => pinfo.errno # EINTR)
    /\ (ret.tag = "Err" => ret.errno # EINTR)

\* An interrupted read of the status file and an interrupted directory read.
C13_ReadInterrupted == ppc = "read" /\ retries > 0 /\ plen > 0
C13_GetdentsInterrupted == pc = "getdents64" /\ retries > 0

\* The descriptors that are open, the opens that succeeded and the closes.
OpenFds == {fd \in FDs : fds[fd].open}
Opened(t) == {i \in 1..Len(t) : t[i].op = "openat" /\ t[i].res = OK}
Closes(t) == {i \in 1..Len(t) : t[i].op = "close"}

\* C14: every descriptor opened (status file, candidate root, subdirectory)
\* is closed exactly once before the call returns, on every exit path: the
\* open descriptors are those of the live Dirs and of the status file being
\* read, one each, every other one opened was closed once, none is open when
\* the call has returned; a close that fails is not the call's error.
C14_ClosedOnce ==
    /\ OpenFds = {stack[i].fd : i \in 1..Len(stack)} \cup (IF ppc = "read" THEN {3} ELSE {})
    /\ \A i, j \in 1..Len(stack) : i # j => stack[i].fd # stack[j].fd
    /\ Cardinality(Opened(trace)) = Cardinality(Closes(trace)) + Cardinality(OpenFds)
    /\ (pc = "done" => OpenFds = {})
    /\ (ret.tag = "Err" /\ ret.errno \in SysErrors => faulted)

\* A call that returned after it closed the status file, a root and a
\* subdirectory, one of the closes failing.
C14_Witness ==
    /\ pc = "done"
    /\ ppc = "returned"
    /\ Cardinality(Closes(trace)) >= 3
    /\ FailedCloses(trace) # {}
    /\ ~faulted

\* The same in a resolution over the larger trees, and in parse alone.
C14_InResolution ==
    /\ OpenFds = {stack[i].fd : i \in 1..Len(stack)}
    /\ Cardinality(Opened(trace)) = Cardinality(Closes(trace)) + Cardinality(OpenFds)
    /\ (pc = "done" => OpenFds = {})

C14_InParse ==
    /\ OpenFds = (IF ppc = "read" THEN {3} ELSE {})
    /\ Cardinality(Opened(trace)) = Cardinality(Closes(trace)) + Cardinality(OpenFds)

\* The system calls of the trace that failed, but for the guessed name that
\* does not exist (the scan follows), the directory read into a buffer that
\* is too small (the buffer is grown) and the closes (their result is
\* discarded).
GuessMiss(i) ==
    /\ trace[i].op = "fstatat"
    /\ trace[i].res = ENOENT
    /\ i > 1
    /\ trace[i - 1].op = "openat"
    /\ \E k \in 1..Len(dirs) : trace[i - 1].arg = dirs[k]

ErrorEvents ==
    {i \in 1..Len(trace) :
        /\ trace[i].op # "close"
        /\ trace[i].res # OK
        /\ ~(trace[i].op = "getdents64" /\ trace[i].res = EINVAL)
        /\ ~GuessMiss(i)}

\* C15: in by_device_with_buffers_in the first error of any step (a system
\* call that fails, a buffer that cannot grow) is the call's result: the call
\* has returned it, nothing but the closes of the open directories follows
\* it, and no TtyInfo is produced.
C15_FirstErrorReturned ==
    /\ \A i \in ErrorEvents :
          /\ pc = "done"
          /\ ret = Err(trace[i].res)
          /\ \A j \in (i + 1)..Len(trace) : trace[j].op = "close"
    /\ (ret.tag = "Err" => pc = "done" /\ stack = <<>>)
    /\ (faulted => pc = "done" /\ ret.tag = "Err")

\* An error in the first of two roots, returned.
C15_Witness ==
    /\ pc = "done"
    /\ Len(dirs) = 2
    /\ ri = 1
    /\ ret.tag = "Err"
    /\ ErrorEvents # {}

\* The paths of the roots that were opened (or failed to open), in the order
\* of the calls.
RECURSIVE RootOpens(_)
RootOpens(t) ==
    IF t = <<>> THEN <<>>
    ELSE (IF Head(t).op = "openat" /\ \E k \in 1..Len(dirs) : Head(t).arg = dirs[k]
          THEN <<Head(t).arg>> ELSE <<>>) \o RootOpens(Tail(t))

\* Root k holds the target as its guessed name or as an entry of its own
\* listing.
RootHasMatch(k) ==
    LET n == RootNode(fs, dirs[k])
    IN /\ n # "none"
       /\ \/ /\ guess # <<>>
             /\ Walk(fs, n, to_bytes(guess)).err = OK
             /\ Walk(fs, n, to_bytes(guess)).node = "cT"
          \/ HasNode(fs[n], "cT")

\* C16: the roots are opened in the order given, one at a time; the first
\* system call on an opened root is the status query of the guessed name,
\* before any read of the directory; a result comes from the last root
\* opened, no root before it holds a match the guess or the scan of that
\* root's listing would have met, and no root after it is touched.
C16_RootsInOrder ==
    LET opens == RootOpens(trace)
    IN /\ Len(opens) <= Len(dirs)
       /\ opens = SubSeq(dirs, 1, Len(opens))
       /\ Len(opens) <= ri
       /\ (ret.tag = "Ok" => ri = Len(opens))
       /\ \A i \in 1..(Len(trace) - 1) :
             (trace[i].op = "openat" /\ trace[i].res = OK
                /\ \E k \in 1..Len(dirs) : trace[i].arg = dirs[k])
             => trace[i + 1].op \in {"fstatat", "close"} /\
                (trace[i + 1].op = "fstatat" => trace[i + 1].arg = guess)
       /\ (ret.tag = "Ok" => \A k \in 1..(ri - 1) : ~RootHasMatch(k))

\* A result from the second root, after the first was searched to its end.
C16_Witness ==
    /\ pc = "done"
    /\ ret.tag = "Ok"
    /\ ri = 2
    /\ RootOpens(trace) = dirs
    /\ RootHasMatch(2)

\* The number of bytes the last call was to append.
Pushed ==
    CASE bop.op = "push_slice" -> Len(bop.arg)
      [] bop.op = "push_c_str" -> Len(to_bytes(bop.arg))
      [] OTHER -> 0

\* C17: on an ArrayBuffer<N>, reserve(n) is ENOMEM for n > N and Ok for
\* n <= N and changes nothing; push_slice (and push_c_str) of a slice that
\* does not fit in N - len is ENOMEM and changes nothing, and one that fits
\* succeeds.
C17_ArrayReserve ==
    bprev.kind = "Array" =>
        /\ dbuf.cap = BufCap
        /\ (bop.op = "reserve" =>
              /\ bop.err = (IF bop.arg > BufCap THEN ENOMEM ELSE OK)
              /\ dbuf = bprev)
        /\ (bop.op \in {"push_slice", "push_c_str"} =>
              IF bprev.len + Pushed > BufCap
              THEN bop.err = ENOMEM /\ dbuf = bprev
              ELSE bop.err = OK /\ dbuf.len = bprev.len + Pushed)

\* A push_slice that does not fit a buffer that holds bytes already.
C17_Witness ==
    /\ bprev.kind = "Array"
    /\ bop.op = "push_slice"
    /\ bop.err = ENOMEM
    /\ bprev.len = BufCap - 1
    /\ Pushed = 2

\* C18: a CBuffer's pointer never refers to a block that was released, and
\* drop releases the block it holds once: no block is freed twice.
C18_ReleasedOnce ==
    dbuf.kind = "C" =>
        /\ dbuf.ptr \notin {"freed", "double_freed"}
        /\ (bop.op = "drop" => dbuf.ptr \in {"null", "released"})

\* The pointer comes to refer to a released block in no other way than by
\* shrink_to_fit on a buffer of length 0.
C18_OnlyShrinkAtZero ==
    [][(dbuf'.ptr = "freed" /\ dbuf.ptr # "freed")
          => (bop'.op = "shrink_to_fit" /\ dbuf.len = 0 /\ dbuf.kind = "C")]_vars

\* A CBuffer that was grown, filled, shrunk to its length and dropped.
C18_DroppedOnce ==
    /\ dbuf.kind = "C"
    /\ bop.op = "drop"
    /\ dbuf.ptr = "released"
    /\ dbuf.len > 0
    /\ dbuf.cap = dbuf.len

\* C19: parse returns EINVAL, and no record, for a status record that is
\* malformed: pid empty or not a number, a delimiter missing, no "(" or no
\* ")", a state that is not one character and a space, an empty ppid, pgrp,
\* session or tty.
C19_MalformedRejected ==
    (ppc = "done" /\ ~faulted) => pinfo = Err(EINVAL)

\* The same but for a pid that is a sign alone and for a pgrp that is not
\* followed by a space.
C19_OthersRejected ==
    (ppc = "done" /\ ~faulted /\ <<proc.part, proc.put>> \notin {<<"pid", <<"-">>>>, <<"sp5", <<TAB>>>>})
        => pinfo = Err(EINVAL)

C19_EmptySessionRejected ==
    /\ ppc = "done"
    /\ ~faulted
    /\ proc.part = "session"
    /\ pinfo = Err(EINVAL)

\* C20: the tty field t of the record is read as a signed 32-bit integer;
\* the result's tty is None exactly when t = -1, and otherwise the device
\* whose encoding is t taken as an unsigned 32-bit integer, also for a
\* negative t.  (For a command name without ")", so that the field read is
\* field 7 of the record.)
C20_TtyReinterpreted ==
    (ppc = "done" /\ pinfo.tag = "Ok" /\ ~HasParen(proc.comm)) =>
        /\ (pinfo.tty.some <=> proc.tty_nr # -1)
        /\ (pinfo.tty.some =>
              pinfo.tty.dev = (IF proc.tty_nr >= 0
                               THEN [hi |-> proc.tty_nr \div 65536, lo |-> proc.tty_nr % 65536]
                               ELSE [hi |-> 65535 - ((0 - proc.tty_nr - 1) \div 65536),
                                     lo |-> 65535 - ((0 - proc.tty_nr - 1) % 65536)]))

\* A negative tty field other than -1, returned as a device.
C20_Witness ==
    /\ ppc = "done"
    /\ proc.tty_nr = -65537
    /\ pinfo.tag = "Ok"
    /\ pinfo.tty = [some |-> TRUE, dev |-> [hi |-> 65534, lo |-> 65535]]

C20_MinusOneIsNone ==
    /\ ppc = "done"
    /\ proc.tty_nr = -1
    /\ pinfo.tag = "Ok"
    /\ ~pinfo.tty.some

\* A number below 1000 in decimal.
DecimalOf(n) ==
    IF n < 10 THEN <<Digit(n)>>
    ELSE IF n < 100 THEN <<Digit(n \div 10), Digit(n % 10)>>
    ELSE <<Digit(n \div 100), Digit((n \div 10) % 10), Digit(n % 10)>>

\* The name the table gives for a device.
TableName(dev) ==
    CASE dev.major = 4 /\ dev.minor < 64 -> <<"t", "t", "y">> \o DecimalOf(dev.minor)
      [] dev.major = 4 /\ dev.minor >= 64 -> <<"t", "t", "y", "S">> \o DecimalOf(dev.minor - 64)
      [] dev.major = 136 -> <<"p", "t", "s", "/">> \o DecimalOf(dev.minor)
      [] dev.major = 166 -> <<"t", "t", "y", "A", "C", "M">> \o DecimalOf(dev.minor)
      [] dev.major = 188 -> <<"t", "t", "y", "U", "S", "B">> \o DecimalOf(dev.minor)

\* C21: the guessed name is "tty<minor>" for major 4 and a minor below 64,
\* "ttyS<minor - 64>" for major 4 and a minor from 64 on, "pts/<minor>" for
\* 136, "ttyACM<minor>" for 166, "ttyUSB<minor>" for 188, followed by one
\* NUL; it fits guess_buf.
C21_GuessedName ==
    (pc # "start" /\ rdev.major \in {4, 136, 166, 188}) =>
        /\ guess = TableName(rdev) \o <<NUL>>
        /\ \A i \in 1..(Len(guess) - 1) : guess[i] # NUL
        /\ Len(guess) <= 6 + 10 + 1

\* The first serial line and the last console.
C21_Witness ==
    /\ pc = "done"
    /\ rdev = Dev(4, 64)
    /\ guess = <<"t", "t", "y", "S", "0", NUL>>

C21_LastConsole ==
    /\ pc = "done"
    /\ rdev = Dev(4, 63)
    /\ guess = <<"t", "t", "y", "6", "3", NUL>>

\* Event i is try_path_guessing's status query: the system call that follows
\* the open of a root.
GuessQuery(i) ==
    /\ i > 1
    /\ trace[i].op = "fstatat"
    /\ trace[i - 1].op = "openat"
    /\ \E k \in 1..Len(dirs) : trace[i - 1].arg = dirs[k]

\* What the guessed name is under the root opened just before event i.
GuessedNode(i) == Walk(fs, RootNode(fs, trace[i - 1].arg), to_bytes(guess))

\* After event i the scan of the same root follows: the directory is read
\* through the same descriptor.
ScanFollows(i) ==
    IF i = Len(trace)
    THEN pc \in {"iter", "next", "getdents64"} /\ Len(stack) = 1 /\ Top.fd = trace[i].fd
    ELSE trace[i + 1].op = "getdents64" /\ trace[i + 1].fd = trace[i].fd

\* After event i the call has returned and nothing but closes followed.
NothingFollows(i) ==
    /\ pc = "done"
    /\ \A j \in (i + 1)..Len(trace) : trace[j].op = "close"

\* C22: the status query of the guessed name ends in one of three ways.
\* ENOENT: no match, the scan of the same root follows.  Another error: the
\* call returns it, no scan.  Success: a match if and only if the name is a
\* character device with the target device number (the call returns, with
\* a TtyInfo unless the path buffer cannot grow), otherwise the scan
\* follows.  The name itself is queried: a symbolic link to the target
\* device is no match.
C22_GuessOutcomes ==
    \A i \in 1..Len(trace) :
        GuessQuery(i) =>
            LET w == GuessedNode(i)
                r == trace[i].res
            IN /\ trace[i].arg = guess
               /\ r \in SysErrors \/ r = w.err
               /\ r = ENOENT => ScanFollows(i)
               /\ r \notin {OK, ENOENT} => NothingFollows(i) /\ ret = Err(r)
               /\ r = OK =>
                     IF Kind(w.node) = "Character" /\ Rdev(w.node, rdev) = rdev
                     THEN /\ NothingFollows(i)
                          /\ \/ ret.tag = "Ok" /\ ret.dev = rdev
                             \/ ret = Err(ENOMEM)
                     ELSE ScanFollows(i)

\* The guessed name is a character device with another number: the scan
\* follows.
C22_Witness ==
    \E i \in 1..Len(trace) :
        /\ GuessQuery(i)
        /\ trace[i].res = OK
        /\ GuessedNode(i).node = "cO"
        /\ i < Len(trace)
        /\ trace[i + 1].op = "getdents64"

\* The guessed name is a symbolic link to the target device: the scan follows.
C22_LinkNotFollowed ==
    \E i \in 1..Len(trace) :
        /\ GuessQuery(i)
        /\ trace[i].res = OK
        /\ GuessedNode(i).node = "ln"
        /\ i < Len(trace)
        /\ trace[i + 1].op = "getdents64"

\* The query fails with another error than ENOENT: the call returns it.
C22_ErrorReturned ==
    \E i \in 1..Len(trace) :
        /\ GuessQuery(i)
        /\ trace[i].res = EIO
        /\ ret = Err(EIO)

\* The guessed name does not exist: the scan follows.
C22_Missing ==
    \E i \in 1..Len(trace) :
        /\ GuessQuery(i)
        /\ trace[i].res = ENOENT
        /\ i < Len(trace)
        /\ trace[i + 1].op = "getdents64"

\* Event i is a system call of the scan on an entry of a directory: the status
\* query of the entry, or the open of a subdirectory.
EntryCall(i) ==
    \/ trace[i].op = "fstatat" /\ ~GuessQuery(i)
    \/ trace[i].op = "openat" /\ \A k \in 1..Len(dirs) : trace[i].arg # dirs[k]

\* C23: when, during the scan, the status query of an entry or the open of a
\* subdirectory fails with ENOENT (the entry is gone), the call returns
\* ENOENT: no further entry and no further root is examined, nothing but the
\* closes of the open directories follows.
C23_VanishedFails ==
    \A i \in 1..Len(trace) :
        (EntryCall(i) /\ trace[i].res = ENOENT) =>
            /\ NothingFollows(i)
            /\ ret = Err(ENOENT)

\* An entry of the first of two roots that exists is gone at its status
\* query: the second root is not opened.
C23_Witness ==
    /\ pc = "done"
    /\ Len(dirs) = 2
    /\ ri = 1
    /\ faulted
    /\ ret = Err(ENOENT)
    /\ \E i \in 1..Len(trace) :
          /\ EntryCall(i)
          /\ trace[i].op = "fstatat"
          /\ trace[i].res = ENOENT
          /\ \E j \in 1..Len(fs[RootNode(fs, dirs[1])]) :
                fs[RootNode(fs, dirs[1])][j].name \o <<NUL>> = trace[i].arg

\* A subdirectory is gone when it is opened.
C23_SubdirVanished ==
    /\ pc = "done"
    /\ faulted
    /\ ret = Err(ENOENT)
    /\ \E i \in 1..Len(trace) :
          /\ EntryCall(i)
          /\ trace[i].op = "openat"
          /\ trace[i].res = ENOENT
          /\ trace[i].arg = <<"p", "t", "s", NUL>>

\* C24: in the loop of getdents64, the reserve that follows EINVAL leaves the
\* buffer with a capacity strictly larger than before (or fails with
\* ENOMEM), and so the refill comes to an end: entries, the end of the
\* directory, or an error; for every buffer and every capacity it starts
\* with, 0 included.
C24_RefillTerminates ==
    /\ [][(pc = "reserve" /\ pc' = "getdents64") => dbuf'.cap > dbuf.cap]_vars
    /\ [][(pc = "reserve" /\ pc' # "getdents64") => pc' = "done" /\ ret' = Err(ENOMEM)]_vars
    /\ (pc = "getdents64") ~> (pc \in {"entry", "end", "done"})

\* From a capacity of 2 on the reserve after EINVAL grows the buffer by half
\* or fails with ENOMEM.
C24_GrowsFromTwo ==
    [][(pc = "reserve" /\ dbuf.cap >= 2) =>
          \/ pc' = "getdents64" /\ dbuf'.cap >= (dbuf.cap * 3) \div 2 /\ dbuf'.cap > dbuf.cap
          \/ pc' = "done" /\ ret' = Err(ENOMEM)]_vars

\* The reserve after EINVAL that leaves a capacity of 0 as it is.
C24_NoGrowthAtZero ==
    /\ pc = "getdents64"
    /\ dbuf.cap = 0
    /\ trace # <<>>
    /\ trace[Len(trace)].op = "getdents64"
    /\ trace[Len(trace)].res = EINVAL

\* C25: an iterator made over a Dir whose tell is not 0 first seeks the
\* descriptor to exactly tell (lseek, SEEK_SET; an interrupted lseek is issued
\* again): no getdents64 comes before the seek has succeeded, and when the
\* seek fails with another error the creation fails with it and no
\* getdents64 is issued.  Over a Dir whose tell is 0 no lseek is issued.
C25_SeekBeforeRead ==
    LET seeks == {i \in 1..Len(trace) : trace[i].op = "lseek"}
        reads == {i \in 1..Len(trace) : trace[i].op = "getdents64"}
    IN /\ \A i \in seeks : i = 1 /\ trace[i].fd = 3 /\ trace[i].arg # 0
       /\ (1 \in seeks /\ trace[1].res # OK) =>
             /\ pc = "done"
             /\ ret = Err(trace[1].res)
             /\ reads = {}
       /\ stack # <<>> =>
             IF stack[1].from = 0
             THEN seeks = {}
             ELSE /\ \A i \in seeks : trace[i].arg = stack[1].from
                  /\ pc # "iter" => seeks = {1} /\ trace[1].res = OK
                  /\ reads # {} => seeks = {1} /\ trace[1].res = OK
                  /\ (seeks = {1} /\ Len(trace) = 1) => fds[3].pos = stack[1].from

\* The seek to the cursor, then the read.
C25_Witness ==
    /\ stack # <<>>
    /\ stack[1].from = 2
    /\ Len(trace) >= 2
    /\ trace[1].op = "lseek"
    /\ trace[1].arg = 2
    /\ trace[2].op = "getdents64"
    /\ trace[2].res = OK
    /\ pc = "entry"

\* The seek fails: no iterator.
C25_SeekFails ==
    /\ pc = "done"
    /\ trace # <<>>
    /\ trace[1] = Ev("lseek", 3, 2, EIO)
    /\ ret = Err(EIO)

\* An interrupted lseek is issued again.
C25_SeekRetried ==
    [][(pc = "iter" /\ retries' > retries) => pc' = "iter" /\ trace' = trace]_vars

\* C26: a Dir's tell is 0 from its open until its first entry is yielded;
\* a next() that yields an entry leaves tell at that entry's d_off; nothing
\* else changes it: not a next() that ends or fails, not a new iterator, not
\* the end of one.
C26_TellFollowsEntries ==
    /\ [](\A i \in 1..Len(stack) : stack[i].yielded = <<>> => stack[i].tell = 0)
    /\ [](pc = "entry" => Top.tell = cur.d_off)
    /\ [][\A i \in 1..Len(stack') :
            IF i > Len(stack)
            THEN stack'[i].tell = 0 /\ stack'[i].yielded = <<>>
            ELSE IF stack'[i].yielded = stack[i].yielded
            THEN stack'[i].tell = stack[i].tell
            ELSE /\ pc' = "entry"
                 /\ i = Len(stack')
                 /\ stack'[i].yielded = Append(stack[i].yielded, to_bytes(cur'.d_name))
                 /\ stack'[i].tell = cur'.d_off]_vars

\* The third entry of a subdirectory is yielded, the parent's tell is where
\* it was at the subdirectory's entry.
C26_Witness ==
    /\ pc = "entry"
    /\ Len(stack) = 2
    /\ Len(Top.yielded) = 3
    /\ Top.tell = cur.d_off
    /\ Top.tell # 0
    /\ stack[1].tell # 0

\* The bytes of the path: those below its length.
PathBytes(b) == SubSeq(b.mem, 1, b.len)

\* C27: a recursive scandir that returns without a match leaves the path as
\* it was at the call: from the open of the subdirectory to the return of
\* the recursive call to its caller, no step changes the length of the path
\* or a byte below it.
C27_PathRestored ==
    [][(pc' # "done" /\ (Len(stack') >= 2 \/ (Len(stack) >= 2 /\ pc = "end"))) =>
          /\ pbuf'.len = pbuf.len
          /\ PathBytes(pbuf') = PathBytes(pbuf)]_vars

\* A recursive call has returned without a match: the caller goes on with the
\* path it had, the root's.
C27_Witness ==
    /\ pc = "iter"
    /\ Len(stack) = 1
    /\ Top.resume > 0
    /\ pbuf.len = Top.old_len
    /\ PathBytes(pbuf) = to_bytes(dirs[ri])

SubdirOpen(i) ==
    /\ trace[i].op = "openat"
    /\ trace[i].res = OK
    /\ \A k \in 1..Len(dirs) : trace[i].arg # dirs[k]
    /\ trace[i].arg # <<"stat">>

\* The names of the symbolic links of the tree, as C strings.
LinkNames ==
    UNION {{fs[n][j].name \o <<NUL>> : j \in {k \in 1..Len(fs[n]) : fs[n][k].node = "ln"}}
           : n \in DOMAIN fs}

\* "." and ".." are never status-queried nor opened by the scan.
C29_DotsSkipped ==
    \A i \in 1..Len(trace) :
        (trace[i].op \in {"fstatat", "openat"} /\ trace[i].arg # <<"stat">>) =>
            trace[i].arg \notin {<<".", NUL>>, <<".", ".", NUL>>}

\* No symbolic link is opened by the scan, and every open descriptor of the
\* scan is on a directory.
C29_LinksNotEntered ==
    /\ \A i \in 1..Len(trace) :
          (trace[i].op = "openat" /\ trace[i].arg # <<"stat">>) => trace[i].arg \notin LinkNames
    /\ \A i \in 1..Len(stack) : Kind(fds[stack[i].fd].node) = "Directory"

\* No directory is opened twice in the scan of one root: two opens of the
\* same name relative to the same descriptor are in the scans of two roots.
C29_OpenedOnce ==
    \A i, j \in 1..Len(trace) :
        (i < j /\ SubdirOpen(i) /\ SubdirOpen(j)
           /\ trace[i].fd = trace[j].fd /\ trace[i].arg = trace[j].arg)
        => \E m \in (i + 1)..(j - 1) :
              trace[m].op = "openat" /\ \E k \in 1..Len(dirs) : trace[m].arg = dirs[k]

\* C29: on a tree that does not change, interruptions not going on for ever,
\* the scan comes to an end: the call returns.  "." and ".." are never
\* status-queried nor entered, no symbolic link is entered, and no directory
\* is opened twice in the scan of one root.
C29_ScanTerminates ==
    /\ <>(pc = "done")
    /\ []C29_DotsSkipped
    /\ []C29_LinksNotEntered
    /\ []C29_OpenedOnce

\* The scan of a tree with a subdirectory that has come to its end.
C29_ScannedToEnd ==
    /\ pc = "done"
    /\ ret = Err(ENOENT)
    /\ \E i \in 1..Len(trace) : SubdirOpen(i)
    /\ ~faulted

\* C30: scandir takes the type of an entry from its type hint.  It queries the
\* status of the entry (fstatat on the entry's name, relative to the
\* directory) if and only if the hint is Unknown or Character; the type is
\* then the queried one for Unknown and the hint otherwise.  Only a
\* Directory is entered; only a Character is compared, and it is accepted
\* if and only if the device number its status query reported is the
\* target's; every other entry is passed over.
C30_TypeFromHint ==
    [][(pc = "entry" /\ pc' # "entry"
          /\ to_bytes(cur.d_name) \notin {<<".">>, <<".", ".">>}) =>
        LET hint == cur.d_type
            w == Walk(fs, fds[Top.fd].node, to_bytes(cur.d_name))
            queried == /\ Len(trace') > Len(trace)
                       /\ trace'[Len(trace) + 1].op = "fstatat"
            ok == queried /\ trace'[Len(trace) + 1].res = OK
            resolved == IF hint # "Unknown" THEN hint
                        ELSE IF ok THEN Kind(w.node) ELSE "None"
            matched == pc' = "done" /\ ret'.tag = "Ok"
            same == ok /\ Rdev(w.node, rdev) = rdev
        IN /\ queried <=> hint \in {"Unknown", "Character"}
           /\ queried => /\ trace'[Len(trace) + 1].arg = cur.d_name
                         /\ trace'[Len(trace) + 1].fd = Top.fd
           /\ pc' = "open_at" <=> (resolved = "Directory")
           /\ matched => resolved = "Character" /\ same
           /\ (resolved = "Character" /\ same) =>
                 pc' = "done" /\ (matched \/ ret' = Err(ENOMEM))
           /\ (resolved \notin {"Character", "Directory"} /\ (queried => ok)) =>
                 pc' = "next" /\ pbuf' = pbuf]_vars

\* An entry with the hint Character and the target's device number was
\* accepted after its status query.
C30_Witness ==
    /\ pc = "done"
    /\ ret.tag = "Ok"
    /\ typed
    /\ Issued("getdents64")
    /\ cur.d_type = "Character"
    /\ \E i \in 1..Len(trace) :
          /\ trace[i].op = "fstatat"
          /\ trace[i].arg = cur.d_name
          /\ trace[i].res = OK
          /\ \A j \in (i + 1)..Len(trace) : trace[j].op = "close"

\* An entry with the hint Unknown was queried and found a directory: it is
\* entered.
C30_UnknownResolved ==
    /\ pc = "open_at"
    /\ ~typed
    /\ cur.d_type = "Unknown"
    /\ trace[Len(trace)].op = "fstatat"
    /\ trace[Len(trace)].arg = cur.d_name

\* A symbolic link with its hint is passed over without a query.
C30_LinkPassedOver ==
    /\ pc = "next"
    /\ cur.d_type = "Symlink"
    /\ trace[Len(trace)].op = "getdents64"

\* A character device with another number is passed over after its query.
C30_OtherDevice ==
    /\ pc = "next"
    /\ cur.d_type = "Character"
    /\ cur.d_ino = "cO"
    /\ trace[Len(trace)].op = "fstatat"
    /\ trace[Len(trace)].res = OK

\* The kernel-table queries of proc_info, and the allocations.
Queries == {i \in 1..Len(btrace) : btrace[i].op = "sysctl"}
Reallocs == {i \in 1..Len(btrace) : btrace[i].op = "realloc"}

\* C31 as stated: the first query of proc_info is issued with a buffer of
\* exactly the size of the record, and the buffer is enlarged only after a
\* query has answered ENOMEM.
C31_FirstExact ==
    /\ \A i \in Queries : (\A j \in Queries : i <= j) => btrace[i].arg = RecSize
    /\ \A i \in Reallocs :
          btrace[i].arg # RecSize => i > 1 /\ btrace[i - 1].op = "sysctl"

\* C31 as the code has it: the size is enlarged by a tenth before every
\* allocation, the first one too: the first query is issued with a buffer of
\* the record's size and a tenth of it, each further one after a query that
\* answered ENOMEM, with a buffer a tenth larger; every query has its
\* buffer from the allocation just before it.  The loop ends with the first
\* query that succeeds or fails with another error, or with an allocation
\* that fails; the error is the call's result.
C31_GrowsByTenth ==
    /\ \A i \in Reallocs :
          IF i > 1 /\ btrace[i - 1].op = "sysctl"
          THEN /\ btrace[i - 1].res = ENOMEM
               /\ btrace[i].arg = btrace[i - 1].arg + btrace[i - 1].arg \div 10
               /\ btrace[i].arg > btrace[i - 1].arg
          ELSE /\ \A j \in Reallocs : i <= j
               /\ btrace[i].arg = RecSize + RecSize \div 10
    /\ \A i \in Queries :
          /\ i > 1
          /\ btrace[i - 1] = Call("realloc", btrace[i].arg, OK)
          /\ btrace[i].res = ENOMEM =>
                \/ i = Len(btrace) /\ bpc = "realloc"
                \/ i < Len(btrace) /\ btrace[i + 1].op = "realloc"
          /\ btrace[i].res = OK =>
                /\ bpc \in {"ok", "extract", "drop", "done"}
                /\ \A j \in Queries \cup Reallocs : j <= i
                /\ bpc = "done" => bret.tag = "Ok"
          /\ btrace[i].res \notin {OK, ENOMEM} =>
                /\ bret = Err(btrace[i].res)
                /\ \A j \in (i + 1)..Len(btrace) : btrace[j].op = "free"
    /\ \A i \in Reallocs :
          btrace[i].res # OK =>
             /\ bret = Err(ENOMEM)
             /\ \A j \in (i + 1)..Len(btrace) : btrace[j].op = "free"
    /\ (bpc = "done" /\ bret.tag = "Ok") =>
          \E i \in Queries : btrace[i].res = OK

\* Three queries that answered ENOMEM, then the record.
C31_Witness ==
    /\ bpc = "done"
    /\ bret.tag = "Ok"
    /\ Cardinality(Queries) = 4
    /\ Cardinality({i \in Queries : btrace[i].res = ENOMEM}) = 3

\* Another error of the query is returned.
C31_OtherError ==
    /\ bpc = "done"
    /\ bret = Err(ESRCH)
    /\ Cardinality(Queries) = 1

\* The releases of the record's block, and the reads of its fields.
Frees == {i \in 1..Len(btrace) : btrace[i].op = "free"}
Reads == {i \in 1..Len(btrace) : btrace[i].op = "read"}

\* C32: the block proc_info allocates is released exactly once on every
\* path.  It is never freed twice and never freed when none was allocated;
\* when the call has returned it is freed if one was allocated.  On an error
\* (of the query or of a reallocation) it is freed in proc_info and no CBox is
\* made; on success it is freed by the drop of the CBox, after the fields
\* were read, and every read of a field is on the live block.
C32_ReleasedOnce ==
    /\ ki_proc.state # "double_freed"
    /\ Cardinality(Frees) <= 1
    /\ (\A i \in Reallocs : btrace[i].res # OK) => Frees = {} /\ ki_proc.state = "null"
    /\ bpc = "done" =>
          /\ ki_proc.state \in {"null", "freed"}
          /\ (\E i \in Reallocs : btrace[i].res = OK) =>
                ki_proc.state = "freed" /\ Cardinality(Frees) = 1
          /\ bret.tag = "Err" => owners = <<>> /\ Reads = {}
          /\ bret.tag = "Ok" =>
                /\ owners = <<[kind |-> "CBox", live |-> FALSE]>>
                /\ Reads # {}
    /\ \A i \in Reads :
          /\ btrace[i].arg = "live"
          /\ \A j \in Frees : i < j
    /\ bpc \in {"ok", "extract", "drop"} => ki_proc.state = "live"

\* The record was read and then released.
C32_Witness ==
    /\ bpc = "done"
    /\ bret.tag = "Ok"
    /\ ki_proc.state = "freed"
    /\ Cardinality(Frees) = 1
    /\ Reads # {}

\* A reallocation failed after a query: the block of before is released.
C32_ReallocFailed ==
    /\ bpc = "done"
    /\ bret = Err(ENOMEM)
    /\ Cardinality(Queries) = 1
    /\ ki_proc.state = "freed"

\* The first allocation failed: nothing to release.
C32_NeverAllocated ==
    /\ bpc = "done"
    /\ bret = Err(ENOMEM)
    /\ Queries = {}
    /\ Frees = {}

\* The bytes the last call was to append.
Appended == IF bop.op = "push_c_str" THEN to_bytes(bop.arg) ELSE bop.arg

\* C33: a successful push_slice(s) on a buffer of length L gives length
\* L + |s|, leaves the bytes below L as they were and makes the bytes from L
\* on equal to s, for every variant; it ends in the state of reserve(L + |s|),
\* a copy of s at offset L and set_len(L + |s|).  push_c_str appends the
\* bytes of the string without its terminator.
C33_PushAppends ==
    (bop.op \in {"push_slice", "push_c_str"} /\ bop.err = OK) =>
        /\ dbuf.len = bprev.len + Len(Appended)
        /\ dbuf.cap >= dbuf.len
        /\ \A i \in 1..bprev.len : dbuf.mem[i] = bprev.mem[i]
        /\ \A i \in 1..Len(Appended) : dbuf.mem[bprev.len + i] = Appended[i]
        /\ \E alloc \in AllocOutcomes(bprev) :
              LET r == reserve(bprev, bprev.len + Len(Appended), alloc)
              IN /\ r.err = OK
                 /\ dbuf = set_len([r.buf EXCEPT !.mem = CopyAt(r.buf.mem, bprev.len, Appended)],
                                   bprev.len + Len(Appended))
        /\ bop.op = "push_c_str" => NUL \notin {dbuf.mem[i] : i \in 1..dbuf.len}

\* The same for a buffer whose pointer is not one to a released block.
C33_ValidPushAppends ==
    (bop.op \in {"push_slice", "push_c_str"} /\ bop.err = OK /\ bprev.ptr # "freed") =>
        /\ dbuf.len = bprev.len + Len(Appended)
        /\ dbuf.cap >= dbuf.len
        /\ \A i \in 1..bprev.len : dbuf.mem[i] = bprev.mem[i]
        /\ \A i \in 1..Len(Appended) : dbuf.mem[bprev.len + i] = Appended[i]

\* A slice was appended after bytes the buffer held, with a reallocation.
C33_Witness ==
    /\ bop.op = "push_slice"
    /\ bop.err = OK
    /\ bop.arg = <<"b", "c">>
    /\ bprev.len > 0
    /\ dbuf.cap > bprev.cap
    /\ as_slice(dbuf) = as_slice(bprev) \o <<"b", "c">>

\* A C string was appended after a slice.
C33_CStrAppended ==
    /\ bop.op = "push_c_str"
    /\ bop.err = OK
    /\ as_slice(dbuf) = <<"a", "d">>

\* The name try_path_guessing or try_path is called with.
MatchName == to_bytes(IF pc = "guess" THEN guess ELSE cur.d_name)

\* C34: the append of a match is all or nothing.  A step of
\* try_path_guessing or of scandir's try_path either reports the match with
\* "/", the name and the terminator appended to the path buffer, or leaves
\* the path buffer, length and contents, as it was: so it is when the append
\* fails with ENOMEM.
C34_AllOrNothing ==
    [][(pc \in {"guess", "entry"}) =>
         ((IF pc' = "done" /\ ret'.tag = "Ok"
           THEN /\ as_slice(pbuf') = as_slice(pbuf) \o <<SLASH>> \o MatchName \o <<NUL>>
                /\ ret'.buf = pbuf'
           ELSE pbuf' = pbuf))]_vars

\* The last system call before the closes is a status query that succeeded.
AfterStat ==
    \E i \in 1..Len(trace) :
        /\ trace[i].op = "fstatat"
        /\ trace[i].res = OK
        /\ \A j \in (i + 1)..Len(trace) : trace[j].op = "close"

\* The append failed in a fixed buffer that "/" alone would have fitted in.
C34_Witness ==
    /\ pc = "done"
    /\ ret = Err(ENOMEM)
    /\ AfterStat
    /\ pbuf.kind = "Array"
    /\ pbuf.len < pbuf.cap
    /\ as_slice(pbuf) = to_bytes(dirs[ri])

\* The allocation failed in a CBuffer.
C34_AllocFailed ==
    /\ pc = "done"
    /\ ret = Err(ENOMEM)
    /\ AfterStat
    /\ pbuf.kind = "C"
    /\ as_slice(pbuf) = to_bytes(dirs[ri])

\* The match was appended and reported.
C34_Appended ==
    /\ pc = "done"
    /\ ret.tag = "Ok"
    /\ AfterStat

\* The system calls of the step, as indices of trace'.
NewEvents == (Len(trace) + 1)..Len(trace')

\* C35: every operation on a directory descriptor is issued on a descriptor
\* that is open.  The descriptors of the live Dirs are open, the parent's
\* among them while a child scan runs.  Every status query, open-relative,
\* directory read and seek of a step is on the descriptor of the innermost
\* Dir, which is open and on which no close came before in the step; a close
\* is of an open descriptor that is not closed again.  A step of a child scan
\* that leaves its parent running neither closes nor seeks a descriptor of a
\* frame below it: those descriptors stay as they are.
C35_OpenWhenUsed ==
    /\ [](\A k \in 1..Len(stack) : fds[stack[k].fd].open)
    /\ [][stack # <<>> =>
            /\ \A i \in NewEvents :
                  /\ fds[trace'[i].fd].open
                  /\ trace'[i].op # "close" => trace'[i].fd = Top.fd
                  /\ \A j \in NewEvents :
                        (j < i /\ trace'[j].op = "close") => trace'[j].fd # trace'[i].fd
                  /\ trace'[i].op = "close" => ~fds'[trace'[i].fd].open
            /\ (pc' # "done" /\ pc' # "find_in_dir") =>
                  \A k \in 1..(Len(stack) - 1) :
                      /\ fds'[stack[k].fd] = fds[stack[k].fd]
                      /\ \A i \in NewEvents : trace'[i].fd # stack[k].fd]_vars

\* After the scan of a subdirectory, whose descriptor was closed, the parent
\* scan has sought and read on its own descriptor.
C35_Witness ==
    /\ Len(stack) = 1
    /\ Top.resume > 0
    /\ fds[Top.fd].open
    /\ \E i, j, k \in 1..Len(trace) :
          /\ i < j
          /\ j < k
          /\ trace[i].op = "close"
          /\ trace[j].op = "lseek"
          /\ trace[j].res = OK
          /\ trace[j].fd = Top.fd
          /\ trace[k].op = "getdents64"
          /\ trace[k].fd = Top.fd

\* The parent's stream was made anew after the scan of a subdirectory and
\* has yielded nothing yet.
Recreated == stack # <<>> /\ Top.resume > 0 /\ Len(Top.yielded) = Top.resume

\* C36: when a scan of a subdirectory returns without a match the shared
\* dirent buffer is empty, and it is with the empty buffer that the parent's
\* stream is made anew; the new stream seeks (its tell is not 0) and its
\* first next() yields nothing from the buffer but goes to the refill, so it
\* parses no record the child's stream left.  And the entry scandir reads
\* (its name and type, for the status query, the comparison and the open) is
\* the record as it is in the buffer: no refill came since it was yielded.
C36_FreshAfterChild ==
    /\ [](pc \in {"entry", "open_at"} =>
            /\ Top.offset - cur.d_reclen >= 0
            /\ Top.offset <= dbuf.len
            /\ dbuf.mem[Top.offset - cur.d_reclen + 1] = cur
            /\ trace # <<>>
            /\ trace[Len(trace)].op \in {"getdents64", "fstatat", "lseek", "openat"})
    /\ []((Recreated /\ pc \in {"iter", "next"}) => dbuf.len = 0)
    /\ [][(pc = "end" /\ Len(stack) > 1) =>
            /\ dbuf.len = 0
            /\ dbuf' = dbuf
            /\ pc' = "iter"
            /\ Recreated'
            /\ stack'[Len(stack')].tell # 0]_vars
    /\ [][(Recreated /\ pc = "iter" /\ pc' # "iter") =>
            /\ Len(trace') > Len(trace)
            /\ trace'[Len(trace) + 1].op = "lseek"
            /\ trace'[Len(trace) + 1].fd = Top.fd
            /\ trace'[Len(trace) + 1].arg = Top.tell
            /\ \A i \in (Len(trace) + 2)..Len(trace') : trace'[i].op = "close"
            /\ pc' = "next" <=> trace'[Len(trace) + 1].res = OK
            /\ dbuf' = dbuf]_vars
    /\ [][(Recreated /\ pc = "next") =>
            /\ pc' = "getdents64"
            /\ cur' = cur
            /\ stack'[Len(stack')].yielded = Top.yielded
            /\ dbuf'.len = 0]_vars

\* The parent's stream, made anew, has sought, has read its directory again
\* and has yielded the entry that follows the subdirectory.
C36_Witness ==
    /\ pc = "entry"
    /\ Len(stack) = 1
    /\ Top.resume > 0
    /\ Len(Top.yielded) = Top.resume + 1
    /\ Len(trace) >= 3
    /\ trace[Len(trace)].op = "getdents64"
    /\ trace[Len(trace) - 1].op = "lseek"
    /\ trace[Len(trace) - 2].op = "close"
    /\ dbuf.mem[Top.offset - cur.d_reclen + 1] = cur

\* C37: the path memory of a TtyInfo and the record memory of a CBox are
\* freed exactly once over the lifetime of all the values that refer to
\* them, clones included: the block is never freed twice, and no value in
\* scope points to a block that was freed.
C37_FreedOnce ==
    /\ ki_proc.state # "double_freed"
    /\ Cardinality(Frees) <= 1
    /\ (\E i \in 1..Len(owners) : owners[i].live) => ki_proc.state = "live"

\* The same for a value that was never cloned.
C37_UnclonedFreedOnce ==
    Len(owners) <= 1 =>
        /\ ki_proc.state # "double_freed"
        /\ Cardinality(Frees) <= 1
        /\ (\E i \in 1..Len(owners) : owners[i].live) => ki_proc.state = "live"

\* A TtyInfo and its clone were dropped: two frees of the one block.
C37_DoubleFree ==
    /\ kproc.variant = "TtyInfo"
    /\ Len(owners) = 2
    /\ \A i \in 1..2 : ~owners[i].live
    /\ ki_proc.state = "double_freed"
    /\ Cardinality(Frees) = 2

\* A clone of a CBox was read through after the original was dropped.
C37_UseAfterFree ==
    /\ kproc.variant = "CBox"
    /\ bret.tag = "Read"
    /\ bret.state = "freed"

\* C38: on Apple a failure of the session lookup (getsid returns -1) makes
\* for_process return an error: it returns no record whose session is -1
\* taken as an unsigned number.
C38_LookupFailureIsError ==
    (kproc.variant = "apple" /\ bret.tag = "Ok") =>
        /\ bret.session # U32(-1)
        /\ \A i \in 1..Len(btrace) : btrace[i].op = "getsid" => btrace[i].res # -1

\* The same on FreeBSD, where the session is a field of the record.
C38_SessionFromRecord ==
    (kproc.variant = "freebsd" /\ bret.tag = "Ok") => bret.session = U32(kproc.sid)

\* The process did not exist at getsid and did at sysctl: a record with the
\* session 0xFFFFFFFF.
C38_SessionMinusOne ==
    /\ kproc.variant = "apple"
    /\ bpc = "done"
    /\ bret.tag = "Ok"
    /\ bret.session = U32(-1)
    /\ btrace[1] = Call("getsid", kproc.pid, -1)

\* The process existed at neither call: the error is that of sysctl.
C38_NoProcess ==
    /\ kproc.variant = "apple"
    /\ bpc = "done"
    /\ bret = Err(ESRCH)
    /\ btrace[1] = Call("getsid", kproc.pid, -1)

====
